---- MODULE Spec2Model ----
(***************************************************************************)
(* A model of the Jhimki Stock Assistant: the orchestrator                 *)
(* BotService.process_message (src/api/bot_service.py) with its session    *)
(* store, intent extraction, action routing and response generation, and   *)
(* the retrieval adapter PineconeSearchService (src/pinecone_search.py).   *)
(*                                                                         *)
(* The three collaborators (classifier, index, generator) are opaque: each *)
(* call either fails or returns one value of a small set, chosen           *)
(* nondeterministically.                                                   *)
(*                                                                         *)
(* JSON / Python values.  A mapping is a record that always carries all    *)
(* of its known keys; a key that the mapping does not have holds Absent,   *)
(* a key that holds JSON null / Python None holds Null.  Numbers that the  *)
(* code only passes through (prices in the intent) are written as their    *)
(* decimal strings.  Confidence is kept in hundredths (0.6 is 60).         *)
(***************************************************************************)
EXTENDS Integers, Sequences, FiniteSets, TLC

Absent == "<absent>"
Null == "<null>"

\* Python truthiness of a string-valued entry read with dict.get(key).
Truthy(v) == v \notin {Absent, Null, ""}

\* dict.get(key, default): the default only replaces a missing key.
GetOr(v, default) == IF v = Absent THEN default ELSE v

\* str(...).strip() == "" for the query texts of the model.
IsBlank(s) == s \in {"", " ", "   "}

(***************************************************************************)
(* Bounds of the model.                                                    *)
(***************************************************************************)
MaxTurns == 2
\* The earlier turns of the session at the start of SpecHistory.
MaxPriorTurns == 3
\* The messages stored, over all sessions, in SpecStore.
MaxHistory == 3
\* The sessions constructed for one key in SpecStore.
MaxObjects == 2
\* The hits of one index reply in SpecSearch (more than the generator is shown).
MaxHits == 6

(***************************************************************************)
(* Program constants.                                                      *)
(***************************************************************************)
ACTION_SEARCH == "search"
ACTION_CLARIFY == "clarify"
ACTION_CHAT == "chat"
ACTION_ERROR == "error"

\* `confidence < 0.6`, in hundredths.
ConfidenceThreshold == 60
\* The default intent's confidence 0.5 and _decide_action's default, in hundredths.
DefaultConfidence == 50
\* top_k of the search issued by _execute_search.
SearchTopK == 10
\* products[:5] handed to the generator.
SummaryLimit == 5
\* get_context_window(max_messages=5) in _extract_intent and _execute_chat.
ContextWindow == 5

ApologyText == "I apologize, but I encountered an error processing your request. Please try again."
GenericClarification == "I want to help you find the perfect item! Could you provide more details about what you're looking for? For example, the type of clothing, color, fabric, or occasion?"
BoundaryMessage == "I'm only able to help with Jhimki's product catalogue and availability. How can I help you find something from our collection today?"
ChatFallback == "Welcome to Jhimki! We specialize in handcrafted sarees, suit sets, and fabrics. What can I help you find today?"

(***************************************************************************)
(* Confidence values: a number (hundredths), null, a string, or missing.   *)
(***************************************************************************)
Num(p) == [kind |-> "num", pct |-> p]
ConfNull == [kind |-> "null", pct |-> 0]
ConfStr == [kind |-> "str", pct |-> 0]
ConfAbsent == [kind |-> "absent", pct |-> 0]

(***************************************************************************)
(* The attributes entry of an intent: a mapping, null, a non-mapping       *)
(* value (a string), or missing.  price_range is free text, a mapping      *)
(* {min, max}, or missing.                                                 *)
(***************************************************************************)
NoPriceRange == [kind |-> "absent", min |-> Absent, max |-> Absent]
TextPriceRange == [kind |-> "str", min |-> Absent, max |-> Absent]
DictPriceRange(lo, hi) == [kind |-> "dict", min |-> lo, max |-> hi]

EmptyAttrs ==
    [kind |-> "map", color |-> Absent, fabric |-> Absent, technique |-> Absent,
     pattern |-> Absent, price_min |-> Absent, price_max |-> Absent,
     price_range |-> NoPriceRange]
AbsentAttrs == [EmptyAttrs EXCEPT !.kind = "absent"]
NullAttrs == [EmptyAttrs EXCEPT !.kind = "null"]
StrAttrs == [EmptyAttrs EXCEPT !.kind = "str"]

AttrKeys == {"color", "fabric", "technique", "pattern", "price_min", "price_max"}

\* bool(attributes) as Python evaluates it: a non-empty mapping or string.
AttrsTruthy(a) ==
    \/ a.kind = "str"
    \/ /\ a.kind = "map"
       /\ \/ \E k \in AttrKeys : a[k] # Absent
          \/ a.price_range.kind # "absent"

(***************************************************************************)
(* Intents.  An intent is the JSON object parsed from the classifier's     *)
(* reply, or the default intent _extract_intent substitutes on failure.    *)
(***************************************************************************)
IntentTypes ==
    {"product_search", "general_question", "greeting", "clarification_needed", "off_topic"}

MkIntent(ty, cat, sub, attrs, query, conf, nc, cq) ==
    [intent_type |-> ty, category |-> cat, subcategory |-> sub, attributes |-> attrs,
     search_query |-> query, confidence |-> conf, needs_clarification |-> nc,
     clarification_question |-> cq]

\* A plausible slip: the default intent without the raw text as its query.
DefaultIntent_no_query(user_message) ==
    MkIntent("general_question", Absent, Absent, AbsentAttrs, "",
             Num(DefaultConfidence), "false", Absent)

\* A plausible slip: the default confidence set at the threshold.
DefaultIntent_at_threshold(user_message) ==
    MkIntent("general_question", Absent, Absent, AbsentAttrs, user_message,
             Num(ConfidenceThreshold), "false", Absent)

\* The intent returned by the except branch of _extract_intent.
DefaultIntent(user_message) ==
    MkIntent("general_question", Absent, Absent, AbsentAttrs, user_message,
             Num(DefaultConfidence), "false", Absent)

\* A placeholder for "no intent yet" between turns.
NoIntent == MkIntent(Absent, Absent, Absent, AbsentAttrs, Absent, ConfAbsent, Absent, Absent)

(***************************************************************************)
(* ConversationSession.                                                    *)
(***************************************************************************)
EmptyContext == [last_attributes |-> AbsentAttrs, last_category |-> Absent]

\* ConversationSession(session_id).  Two sessions are the same object exactly
\* when they have the same key and the same object number: object is the
\* number of the construction, among the sessions constructed for the key.
NewSession(sid, object) ==
    [session_id |-> sid, object |-> object, messages |-> <<>>, context |-> EmptyContext]

\* datetime.now().isoformat(): the model does not read the clock.
Timestamp == "<timestamp>"

\* A plausible slip: the stored history capped at the size of the view.
add_message_capped(session, role, content) ==
    LET msgs == Append(session.messages,
                       [role |-> role, content |-> content, timestamp |-> Timestamp])
        n == Len(msgs)
    IN [session EXCEPT !.messages = IF n > 5 THEN SubSeq(msgs, n - 4, n) ELSE msgs]

add_message(session, role, content) ==
    [session EXCEPT
        !.messages = Append(@, [role |-> role, content |-> content, timestamp |-> Timestamp])]

\* {"role": msg["role"], "content": msg["content"]}
WithoutTimestamp(msg) == [role |-> msg.role, content |-> msg.content]

\* A plausible slip: the oldest messages instead of the most recent ones.
get_context_window_oldest(session, max_messages) ==
    LET msgs == session.messages
        n == Len(msgs)
        recent == IF n > max_messages /\ max_messages > 0
                  THEN SubSeq(msgs, 1, max_messages)
                  ELSE msgs
    IN [i \in 1..Len(recent) |-> WithoutTimestamp(recent[i])]

\* self.messages[-max_messages:] if len(self.messages) > max_messages else self.messages
\* (a Python slice [-0:] is the whole list).
get_context_window(session, max_messages) ==
    LET msgs == session.messages
        n == Len(msgs)
        recent == IF n > max_messages /\ max_messages > 0
                  THEN SubSeq(msgs, n - max_messages + 1, n)
                  ELSE msgs
    IN [i \in 1..Len(recent) |-> WithoutTimestamp(recent[i])]

update_context(session, key, value) ==
    [session EXCEPT !.context[key] = value]

(***************************************************************************)
(* BotService._extract_intent.  The classifier's reply is one of:          *)
(*   call_failed  the completion call raised                               *)
(*   unparsable   json.loads raised                                        *)
(*   non_object   the reply parsed to a list, string, number or null, so   *)
(*                intent.get raises AttributeError inside the try          *)
(*   object       the reply parsed to a JSON object (field obj)            *)
(* Everything from the call to the context updates is inside the try.      *)
(***************************************************************************)
ClassifierSucceeded(reply) == reply.status = "object"

extract_intent_result(user_message, reply) ==
    IF ClassifierSucceeded(reply) THEN reply.obj ELSE DefaultIntent(user_message)

extract_intent_session(session, reply) ==
    IF ~ClassifierSucceeded(reply) THEN session
    ELSE LET s1 == IF AttrsTruthy(reply.obj.attributes)
                   THEN update_context(session, "last_attributes", reply.obj.attributes)
                   ELSE session
         IN IF Truthy(reply.obj.category)
            THEN update_context(s1, "last_category", reply.obj.category)
            ELSE s1

(***************************************************************************)
(* BotService._decide_action.  Raise stands for the TypeError of           *)
(* `confidence < 0.6` on a confidence that is not a number.                *)
(***************************************************************************)
Raise == "<raise>"

\* bool(needs_clarification)
NeedsClarification(nc) == nc = "true"

GetConfidence(intent) ==
    IF intent.confidence.kind = "absent" THEN Num(DefaultConfidence) ELSE intent.confidence

\* A plausible slip: the confidence test placed before the off_topic test.
decide_action_conf_first(intent) ==
    LET intent_type == GetOr(intent.intent_type, "general_question")
        needs_clarification == GetOr(intent.needs_clarification, "false")
        confidence == GetConfidence(intent)
    IN IF NeedsClarification(needs_clarification) THEN ACTION_CLARIFY
       ELSE IF confidence.kind # "num" THEN Raise
       ELSE IF confidence.pct < ConfidenceThreshold THEN ACTION_CLARIFY
       ELSE IF intent_type = "off_topic" THEN ACTION_CHAT
       ELSE IF intent_type = "product_search" THEN ACTION_SEARCH
       ELSE ACTION_CHAT

\* A plausible slip: the confidence test left out.
decide_action_ignores_confidence(intent) ==
    LET intent_type == GetOr(intent.intent_type, "general_question")
        needs_clarification == GetOr(intent.needs_clarification, "false")
    IN IF intent_type = "off_topic" THEN ACTION_CHAT
       ELSE IF NeedsClarification(needs_clarification) THEN ACTION_CLARIFY
       ELSE IF intent_type = "product_search" THEN ACTION_SEARCH
       ELSE ACTION_CHAT

decide_action(intent) ==
    LET intent_type == GetOr(intent.intent_type, "general_question")
        needs_clarification == GetOr(intent.needs_clarification, "false")
        confidence == GetConfidence(intent)
    IN IF intent_type = "off_topic" THEN ACTION_CHAT
       ELSE IF NeedsClarification(needs_clarification) THEN ACTION_CLARIFY
       ELSE IF confidence.kind # "num" THEN Raise
       ELSE IF confidence.pct < ConfidenceThreshold THEN ACTION_CLARIFY
       ELSE IF intent_type = "product_search" THEN ACTION_SEARCH
       ELSE ACTION_CHAT

(***************************************************************************)
(* PineconeSearchService._build_filter.  A filter is a function from the   *)
(* constrained field names to their constraints; a field without           *)
(* constraint is not in its domain.                                        *)
(***************************************************************************)
FilterEqFields == {"category", "subcategory", "color", "fabric", "technique", "pattern"}

EqConstraint(v) == [eq |-> v, gte |-> Absent, lte |-> Absent]
RangeConstraint(lo, hi) == [eq |-> Absent, gte |-> lo, lte |-> hi]

EmptyFilter == [f \in {} |-> EqConstraint(Absent)]

MkIntentData(category, subcategory, attributes) ==
    [category |-> category, subcategory |-> subcategory, attributes |-> attributes]

\* intent_data.get('attributes', {})
IntentDataAttributes(intent_data) ==
    IF intent_data.attributes.kind = "absent" THEN EmptyAttrs ELSE intent_data.attributes

\* attributes.get(...) raises AttributeError when attributes is None or a string.
build_filter_raises(intent_data) == IntentDataAttributes(intent_data).kind # "map"

\* A plausible slip: `is not None` instead of truthiness, so that an empty
\* string still yields a constraint.
build_filter_keeps_empty(intent_data) ==
    LET attributes == IntentDataAttributes(intent_data)
        value(f) == IF f \in {"category", "subcategory"} THEN intent_data[f] ELSE attributes[f]
        eqFields == {f \in FilterEqFields : value(f) \notin {Absent, Null}}
    IN [f \in eqFields |-> EqConstraint(value(f))]

build_filter(intent_data) ==
    LET attributes == IntentDataAttributes(intent_data)
        value(f) == IF f \in {"category", "subcategory"} THEN intent_data[f] ELSE attributes[f]
        eqFields == {f \in FilterEqFields : Truthy(value(f))}
        price_range == attributes.price_range
        hasMin == price_range.kind = "dict" /\ Truthy(price_range.min)
        hasMax == price_range.kind = "dict" /\ Truthy(price_range.max)
        priceFields == IF hasMin \/ hasMax THEN {"price"} ELSE {}
    IN [f \in eqFields \cup priceFields |->
            IF f = "price"
            THEN RangeConstraint(IF hasMin THEN price_range.min ELSE Absent,
                                 IF hasMax THEN price_range.max ELSE Absent)
            ELSE EqConstraint(value(f))]

(***************************************************************************)
(* Raw hits of the index and PineconeSearchService._convert_results_to_    *)
(* matches.  Scores are in units of 0.00001.                               *)
(***************************************************************************)
NumVal(n) == [kind |-> "num", val |-> n]
NullVal == [kind |-> "null", val |-> 0]
AbsentVal == [kind |-> "absent", val |-> 0]
StrVal == [kind |-> "str", val |-> 0]

EmptyFields ==
    [kind |-> "map", product_id |-> Absent, product_name |-> Absent, price |-> AbsentVal,
     category |-> Absent, subcategory |-> Absent, color |-> Absent, fabric |-> Absent,
     technique |-> Absent, pattern |-> Absent, description |-> Absent,
     in_stock |-> Absent, colors_available |-> Absent]

MkHit(id, score, fields) == [_id |-> id, _score |-> score, fields |-> fields]

\* hit.get('_id'), hit.get('_score', 0), hit.get('fields', {})
HitToMatch(hit) ==
    [id |-> IF hit._id = Absent THEN Null ELSE hit._id,
     score |-> IF hit._score.kind = "absent" THEN NumVal(0) ELSE hit._score,
     metadata |-> IF hit.fields.kind = "absent" THEN EmptyFields ELSE hit.fields]

\* The reply of index.search: the call raised ("fail"), the result is empty or
\* has no `result` ("no_result"), a hit is not a mapping so that hit.get raises
\* ("bad_hit"), or a list of hits ("hits").
convert_results_raises(reply) == reply.status = "bad_hit"

convert_results_to_matches(reply) ==
    IF reply.status = "hits"
    THEN [i \in 1..Len(reply.hits) |-> HitToMatch(reply.hits[i])]
    ELSE <<>>

(***************************************************************************)
(* PineconeSearchService.search, as a function of the service's            *)
(* _initialized flag and of what the collaborator does: initOk (whether    *)
(* Pinecone(...) and pc.Index(...) succeed) and reply (index.search).      *)
(* _initialize and _build_filter run outside the try block.                *)
(***************************************************************************)
\* query_params as sent to index.search: has_filter says whether it has a
\* "filter" key, filter is the value under that key.
NoQuery ==
    [sent |-> FALSE, text |-> "", top_k |-> 0, has_filter |-> FALSE, filter |-> EmptyFilter]

MkSearchRun(outcome, stage, matches, initialized, filter_state, filter_dict, query) ==
    [outcome |-> outcome, stage |-> stage, matches |-> matches, initialized |-> initialized,
     filter_state |-> filter_state, filter_dict |-> filter_dict, query |-> query]

NoSearchRun == MkSearchRun("none", "none", <<>>, FALSE, "none", EmptyFilter, NoQuery)

\* A plausible slip: the empty-text test dropped.
search_no_blank_check(query_text, intent_data, top_k, initialized, initOk, reply) ==
    IF ~initialized /\ ~initOk
    THEN MkSearchRun("raised", "initialize", <<>>, FALSE, "none", EmptyFilter, NoQuery)
    ELSE IF build_filter_raises(intent_data)
    THEN MkSearchRun("raised", "build_filter", <<>>, TRUE, "raised", EmptyFilter, NoQuery)
    ELSE LET filter_dict == build_filter(intent_data)
             query == [sent |-> TRUE, text |-> query_text, top_k |-> top_k,
                       has_filter |-> FALSE, filter |-> EmptyFilter]
         IN IF reply.status = "fail" \/ convert_results_raises(reply)
            THEN MkSearchRun("returned", "except", <<>>, TRUE, "built", filter_dict, query)
            ELSE MkSearchRun("returned", "query", convert_results_to_matches(reply), TRUE,
                             "built", filter_dict, query)

search(query_text, intent_data, top_k, initialized, initOk, reply) ==
    IF ~initialized /\ ~initOk
    THEN MkSearchRun("raised", "initialize", <<>>, FALSE, "none", EmptyFilter, NoQuery)
    ELSE IF ~Truthy(query_text) \/ IsBlank(query_text)
    THEN MkSearchRun("returned", "empty_query", <<>>, TRUE, "none", EmptyFilter, NoQuery)
    ELSE IF build_filter_raises(intent_data)
    THEN MkSearchRun("raised", "build_filter", <<>>, TRUE, "raised", EmptyFilter, NoQuery)
    ELSE LET filter_dict == build_filter(intent_data)
             \* query_params: the filter is not added (the lines are commented out).
             query == [sent |-> TRUE, text |-> query_text, top_k |-> top_k,
                       has_filter |-> FALSE, filter |-> EmptyFilter]
         IN IF reply.status = "fail" \/ convert_results_raises(reply)
            THEN MkSearchRun("returned", "except", <<>>, TRUE, "built", filter_dict, query)
            ELSE MkSearchRun("returned", "query", convert_results_to_matches(reply), TRUE,
                             "built", filter_dict, query)

(***************************************************************************)
(* Number formatting: str(n) and f"{n:,.0f}" for natural numbers.          *)
(***************************************************************************)
Digit(d) ==
    CASE d = 0 -> "0" [] d = 1 -> "1" [] d = 2 -> "2" [] d = 3 -> "3" [] d = 4 -> "4"
      [] d = 5 -> "5" [] d = 6 -> "6" [] d = 7 -> "7" [] d = 8 -> "8" [] d = 9 -> "9"

RECURSIVE IntStr(_)
IntStr(n) == IF n < 10 THEN Digit(n) ELSE IntStr(n \div 10) \o Digit(n % 10)

Pad3(n) == Digit(n \div 100) \o Digit((n \div 10) % 10) \o Digit(n % 10)

RECURSIVE Grouped(_)
Grouped(n) == IF n < 1000 THEN IntStr(n) ELSE Grouped(n \div 1000) \o "," \o Pad3(n % 1000)

\* "Rs." stands for the rupee sign of the source.
RupeeSign == "Rs."

\* The price entry of a product: 'N/A' for a missing, null or zero price, the
\* grouped number for a number, str(price_value) when float() raises.
FormatPrice(price) ==
    CASE price.kind = "num" /\ price.val # 0 -> RupeeSign \o Grouped(price.val)
      [] price.kind = "str" -> "<price text>"
      [] OTHER -> "N/A"

\* round(score, 4) on a score in units of 0.00001 (no score of the model ends in 5).
Round4(score) ==
    IF score % 10 < 5 THEN (score \div 10) * 10 ELSE ((score \div 10) + 1) * 10

(***************************************************************************)
(* BotService._format_products.  It raises when a match's metadata is      *)
(* None (None.get) or its score is not a number (round).                   *)
(***************************************************************************)
FormatProductRaises(match) == match.metadata.kind # "map" \/ match.score.kind # "num"

format_products_raises(matches) ==
    \E i \in 1..Len(matches) : FormatProductRaises(matches[i])

FormatProduct(match) ==
    LET md == match.metadata
    IN [id |-> match.id,
        product_id |-> GetOr(md.product_id, match.id),
        name |-> GetOr(md.product_name, "Unknown"),
        price |-> FormatPrice(md.price),
        category |-> GetOr(md.category, ""),
        subcategory |-> GetOr(md.subcategory, ""),
        color |-> GetOr(md.color, ""),
        fabric |-> GetOr(md.fabric, ""),
        technique |-> GetOr(md.technique, ""),
        pattern |-> GetOr(md.pattern, ""),
        description |-> GetOr(md.description, ""),
        in_stock |-> GetOr(md.in_stock, "true"),
        colors_available |-> GetOr(md.colors_available, ""),
        score |-> Round4(match.score.val)]

format_products(matches) == [i \in 1..Len(matches) |-> FormatProduct(matches[i])]

(***************************************************************************)
(* BotService._generate_search_response.  genReply is what the generator   *)
(* does: it fails, or returns a text.                                      *)
(***************************************************************************)
RECURSIVE Join(_, _)
Join(parts, sep) ==
    IF Len(parts) = 0 THEN ""
    ELSE IF Len(parts) = 1 THEN parts[1]
    ELSE parts[1] \o sep \o Join(Tail(parts), sep)

\* str(v) inside an f-string.
PyStr(v) == IF v = Null THEN "None" ELSE v

\* intent.get("attributes", {})
IntentAttributes(intent) ==
    IF intent.attributes.kind = "absent" THEN EmptyAttrs ELSE intent.attributes

generate_search_response_raises(intent) == IntentAttributes(intent).kind # "map"

QueryDescription(intent) ==
    LET attributes == IntentAttributes(intent)
        search_terms ==
            (IF Truthy(attributes.color) THEN <<"color: " \o attributes.color>> ELSE <<>>)
         \o (IF Truthy(attributes.fabric) THEN <<"fabric: " \o attributes.fabric>> ELSE <<>>)
         \o (IF Truthy(attributes.technique) THEN <<"technique: " \o attributes.technique>> ELSE <<>>)
         \o (IF Truthy(attributes.price_max) THEN <<"under " \o RupeeSign \o attributes.price_max>> ELSE <<>>)
    IN IF Len(search_terms) > 0 THEN Join(search_terms, ", ")
       ELSE PyStr(GetOr(intent.search_query, "your request"))

ProductSummary(i, product) ==
    [index |-> i, name |-> product.name, category |-> product.category,
     subcategory |-> product.subcategory, fabric |-> product.fabric,
     technique |-> product.technique, color |-> product.color, pattern |-> product.pattern,
     price |-> product.price,
     stock |-> IF Truthy(product.in_stock) /\ product.in_stock # "false"
               THEN "In Stock" ELSE "Out of Stock",
     description |-> product.description]

\* A plausible slip: every product summarised, the limit left out.
SearchPrompt_no_limit(intent, products) ==
    [query_description |-> QueryDescription(intent),
     found |-> Len(products),
     summaries |-> [i \in 1..Len(products) |-> ProductSummary(i, products[i])]]

\* The user prompt handed to the generator.
SearchPrompt(intent, products) ==
    LET shown == IF Len(products) > SummaryLimit THEN SummaryLimit ELSE Len(products)
    IN [query_description |-> QueryDescription(intent),
        found |-> Len(products),
        summaries |-> IF Len(products) = 0 THEN <<>>
                      ELSE [i \in 1..shown |-> ProductSummary(i, products[i])]]

\* The system prompt handed to the generator with every search result: its
\* "Example format" section shows two products with name, price and stock.
SearchSystemPrompt ==
    [text |-> "<search system prompt>",
     examples |->
        << [name |-> "Indigo Ajrakh Cotton Saree with Blouse",
            price |-> RupeeSign \o "2,850", stock |-> "In Stock"],
           [name |-> "Indigo Geometric Ajrakh Saree",
            price |-> RupeeSign \o "2,950", stock |-> "In Stock"] >>]

NoMatchFallback(query_description) ==
    "I couldn't find any products matching " \o query_description
        \o ". Would you like to try a different color or style?"

FoundFallback(count) ==
    "I found " \o IntStr(count) \o " items matching your search. Here are the results!"

\* A plausible slip: the fallback chosen without looking at the products.
generate_search_response_no_count(intent, products, genReply) ==
    IF genReply.status = "ok" THEN genReply.text
    ELSE NoMatchFallback(QueryDescription(intent))

generate_search_response(intent, products, genReply) ==
    IF genReply.status = "ok" THEN genReply.text
    ELSE IF Len(products) = 0 THEN NoMatchFallback(QueryDescription(intent))
    ELSE FoundFallback(Len(products))

(***************************************************************************)
(* Responses of process_message.                                           *)
(***************************************************************************)
MkResponse(text, products, action) ==
    [response |-> text, products |-> products, action |-> action,
     has_intent |-> TRUE, error |-> Absent]

\* The entry of `calls` for a call of the generator: what it was handed and
\* whether the call failed.
GeneratorCall(op, input, genReply) ==
    [to |-> "generator", op |-> op, input |-> input, status |-> genReply.status]

\* A plausible slip: the apology returned without the error tag.
ErrorResponse_chat_tag(e) ==
    [response |-> ApologyText, products |-> <<>>, action |-> ACTION_CHAT,
     has_intent |-> FALSE, error |-> e]

\* The dictionary returned by the except branch of process_message.
ErrorResponse(e) ==
    [response |-> ApologyText, products |-> <<>>, action |-> ACTION_ERROR,
     has_intent |-> FALSE, error |-> e]

NoResponse ==
    [response |-> Absent, products |-> <<>>, action |-> Absent,
     has_intent |-> FALSE, error |-> Absent]

(***************************************************************************)
(* Inputs and collaborator behaviours of the model.                        *)
(***************************************************************************)
SessionIds == {"s1", "s2"}

Messages == {"Do you have indigo ajrakh cotton saree under 3000?", "What's the weather?"}

SareeAttrs ==
    [EmptyAttrs EXCEPT !.color = "indigo", !.fabric = "cotton", !.price_max = "3000"]

BlankQuery == "   "

\* The classifier's parsed replies in the multi-turn specification: the routing
\* fields vary over a well-formed product request, and the malformed contents
\* (null attributes, blank or empty query) vary under the search route.
SareeIntent(ty, conf, nc, cq) ==
    MkIntent(ty, "Saree", "Ajrakh Saree", SareeAttrs, "indigo ajrakh cotton saree", conf, nc, cq)

ClassifierObjects ==
    { SareeIntent(ty, conf, nc, "Which fabric would you like?") :
        ty \in {"product_search", "greeting", "off_topic", Absent},
        conf \in {Num(40), Num(95), ConfNull}, nc \in {"true", "false"} }
    \cup
    { SareeIntent("product_search", Num(40), "false", Absent),
      SareeIntent("product_search", Num(ConfidenceThreshold), "false", Absent),
      MkIntent("product_search", Absent, Absent, AbsentAttrs, BlankQuery, Num(95), "false", Absent),
      MkIntent("product_search", Null, Null, NullAttrs, "saree", Num(95), "false", Absent),
      MkIntent("product_search", Absent, Null, NullAttrs, "", Num(95), "false", Absent) }

ClassifierReplies ==
    { [status |-> st, obj |-> NoIntent] : st \in {"call_failed", "unparsable", "non_object"} }
        \cup { [status |-> "object", obj |-> o] : o \in ClassifierObjects }

SareeFields ==
    [EmptyFields EXCEPT !.product_name = "Indigo Ajrakh Cotton Saree", !.price = NumVal(2850),
                        !.category = "Saree", !.color = "Indigo", !.fabric = "Cotton",
                        !.in_stock = "true"]
SuitFields ==
    [EmptyFields EXCEPT !.product_name = "Ajrakh Modal Suit", !.price = NumVal(12500),
                        !.category = "Suit Set", !.in_stock = "false"]

HitSaree == MkHit("p1", NumVal(81234), SareeFields)
HitSuit == MkHit("p2", NumVal(90127), SuitFields)
HitBare == MkHit("p3", AbsentVal, [EmptyFields EXCEPT !.kind = "absent"])
HitNullFields == MkHit("p4", NumVal(50000), [EmptyFields EXCEPT !.kind = "null"])

HitLists == { <<HitSaree>>, <<HitSaree, HitSuit>>, <<HitBare>>, <<HitNullFields>> }

IndexReplies ==
    { [status |-> st, hits |-> <<>>] : st \in {"fail", "no_result", "bad_hit"} }
        \cup { [status |-> "hits", hits |-> h] : h \in HitLists }

GeneratorReplies ==
    { [status |-> "fail", text |-> ""], [status |-> "ok", text |-> "<generated reply>"] }

(***************************************************************************)
(* State.                                                                  *)
(***************************************************************************)
VARIABLES
    sessions,          \* BotService.sessions: session id -> ConversationSession
    initialized,       \* PineconeSearchService._initialized
    pc,                \* the stage of the turn in flight
    turns,             \* number of process_message calls started
    user_message,      \* arguments of the call in flight
    session_id,
    classifier_status, \* what the classifier did in this turn
    intent,            \* local of process_message
    action,            \* local of process_message
    search_run,        \* what search_service.search did in this turn
    failure,           \* the exception caught by process_message, if any
    response_data,     \* the value returned to the caller
    calls,             \* the collaborator calls of this turn, in order
    allocated,         \* session key -> number of ConversationSession objects constructed
    store_call,        \* the last direct call of a session operation, with its result
    held,              \* the session objects get_or_create_session has returned to the caller
    threads,           \* the process_message calls running concurrently, one per thread
    bot_service,       \* index.py: the module's global bot_service, None until first use
    request,           \* the body of the POST request handled last
    http_response      \* the status and body do_POST sent for it

vars ==
    <<sessions, initialized, pc, turns, user_message, session_id, classifier_status,
      intent, action, search_run, failure, response_data, calls,
      allocated, store_call, held, threads, bot_service, request, http_response>>

turn_locals == <<classifier_status, intent, action, search_run, failure, response_data, calls>>

\* What a sequential process_message call leaves alone: the direct calls of
\* the session operations and the concurrent callers.
other_callers == <<store_call, held, threads, bot_service, request, http_response>>

NoSessions == [sid \in {} |-> NewSession(sid, 1)]

NoneAllocated == [sid \in SessionIds |-> 0]

NoStoreCall == [op |-> "none", key |-> Absent, n |-> 0, result |-> Null]

Threads == {"t1", "t2"}

\* A thread that has not yet entered process_message.
NoCall ==
    [pc |-> "idle", user_message |-> Absent, session_id |-> Absent, ref |-> 0,
     orphan |-> NewSession(Absent, 0), intent |-> NoIntent, action |-> Absent,
     view |-> <<>>, in_flight |-> {}, failure |-> Absent, response_data |-> NoResponse]

NoThreads == [t \in Threads |-> NoCall]

\* The body of a POST request: malformed JSON, JSON that is not an object, or
\* an object, of which the handler reads text, message and session_id.
MkRequest(kind, text, message, sid) ==
    [kind |-> kind, text |-> text, message |-> message, session_id |-> sid]

NoRequest == MkRequest("none", Absent, Absent, Absent)

\* What do_POST sends: the status and the JSON body, {response, products} with
\* status 200 and {error} with status 400.
MkHttpResponse(status, response, products, error) ==
    [status |-> status, response |-> response, products |-> products, error |-> error]

NoHttpResponse == MkHttpResponse(0, Absent, <<>>, Absent)

Init ==
    /\ sessions = NoSessions
    /\ initialized = FALSE
    /\ pc = "idle"
    /\ turns = 0
    /\ user_message = Absent
    /\ session_id = Absent
    /\ classifier_status = "none"
    /\ intent = NoIntent
    /\ action = Absent
    /\ search_run = NoSearchRun
    /\ failure = Absent
    /\ response_data = NoResponse
    /\ calls = <<>>
    /\ allocated = NoneAllocated
    /\ store_call = NoStoreCall
    /\ held = {}
    /\ threads = NoThreads
    /\ bot_service = "BotService"
    /\ request = NoRequest
    /\ http_response = NoHttpResponse

\* BotService.get_or_create_session: the store after the call, and the count
\* of constructed sessions after it.
get_or_create_session(store, sid, alloc) ==
    IF sid \in DOMAIN store THEN store
    ELSE [k \in DOMAIN store \cup {sid} |->
            IF k = sid THEN NewSession(sid, alloc[sid] + 1) ELSE store[k]]

constructed(store, sid, alloc) ==
    IF sid \in DOMAIN store THEN alloc ELSE [alloc EXCEPT ![sid] = @ + 1]

(***************************************************************************)
(* process_message, lines 130-133: the session is fetched or created and   *)
(* the user's message is appended to its history.                          *)
(***************************************************************************)
Receive(sid, msg) ==
    /\ pc = "idle"
    /\ turns < MaxTurns
    /\ turns' = turns + 1
    /\ user_message' = msg
    /\ session_id' = sid
    /\ LET store == get_or_create_session(sessions, sid, allocated)
       IN sessions' = [store EXCEPT ![sid] = add_message(@, "user", msg)]
    /\ allocated' = constructed(sessions, sid, allocated)
    /\ pc' = "received"
    /\ UNCHANGED <<initialized, turn_locals, other_callers>>

\* The message list submitted to the classifier.
ClassifierMessages(session, msg) ==
    <<[role |-> "system", content |-> "<intent system prompt>"]>>
        \o get_context_window(session, ContextWindow)
        \o <<[role |-> "user", content |-> msg]>>

(***************************************************************************)
(* process_message, line 136: _extract_intent.                             *)
(***************************************************************************)
ExtractIntent(reply) ==
    /\ pc = "received"
    /\ calls' = Append(calls, [to |-> "classifier", op |-> "complete",
                               messages |-> ClassifierMessages(sessions[session_id], user_message)])
    /\ classifier_status' = reply.status
    /\ intent' = extract_intent_result(user_message, reply)
    /\ sessions' = [sessions EXCEPT ![session_id] = extract_intent_session(@, reply)]
    /\ pc' = "intent_extracted"
    /\ UNCHANGED <<initialized, turns, user_message, session_id, action, search_run,
                   failure, response_data, allocated, other_callers>>

\* The exceptions that reach the except branch of process_message (str(e)).
ConfidenceTypeError == "TypeError: '<' not supported between confidence and float"
AttributesError == "AttributeError: attributes has no attribute 'get'"
InitializeError == "PineconeException: client or index initialisation failed"
MetadataError == "AttributeError/TypeError: metadata is None or score is not a number"

(***************************************************************************)
(* The except branch of process_message: the apology is returned; nothing  *)
(* is appended to the history.                                             *)
(***************************************************************************)
Fail(e) ==
    /\ failure' = e
    /\ response_data' = ErrorResponse(e)
    /\ pc' = "responded"

\* process_message, lines 147-149: the reply is appended and returned.
Respond(resp) ==
    /\ failure' = failure
    /\ response_data' = resp
    /\ sessions' = [sessions EXCEPT ![session_id] = add_message(@, "assistant", resp.response)]
    /\ pc' = "responded"

(***************************************************************************)
(* process_message, line 140: _decide_action.                              *)
(***************************************************************************)
DecideAction ==
    /\ pc = "intent_extracted"
    /\ LET a == decide_action(intent)
       IN IF a = Raise
          THEN /\ Fail(ConfidenceTypeError)
               /\ UNCHANGED <<action, sessions>>
          ELSE /\ action' = a
               /\ pc' = "action_decided"
               /\ UNCHANGED <<failure, response_data, sessions>>
    /\ UNCHANGED <<initialized, turns, user_message, session_id, classifier_status,
                   intent, search_run, calls, allocated, other_callers>>

\* intent.get(key): None for a missing key.
PyGet(v) == IF v = Absent THEN Null ELSE v

\* The calls search makes to the index collaborator: the lazy construction of
\* the client and index handle, then the query.
IndexCalls(was_initialized, run) ==
    (IF was_initialized THEN <<>> ELSE <<[to |-> "index", op |-> "init"]>>)
        \o (IF run.query.sent THEN <<[to |-> "index", op |-> "query", query |-> run.query]>>
            ELSE <<>>)

(***************************************************************************)
(* process_message, lines 144-149 with action = search: _execute_search    *)
(* (search, _format_products, _generate_search_response), then the reply   *)
(* is appended to the history and returned.  An exception that leaves      *)
(* search, _format_products or _generate_search_response is caught by      *)
(* process_message.                                                        *)
(***************************************************************************)
ExecuteSearch(initOk, reply, genReply) ==
    /\ pc = "action_decided"
    /\ action = ACTION_SEARCH
    /\ LET search_query == GetOr(intent.search_query, "")
           intent_data == MkIntentData(PyGet(intent.category), PyGet(intent.subcategory),
                                       IntentAttributes(intent))
           run == search(search_query, intent_data, SearchTopK, initialized, initOk, reply)
           products == format_products(run.matches)
           index_calls == IndexCalls(initialized, run)
       IN /\ search_run' = run
          /\ initialized' = run.initialized
          /\ IF run.outcome = "raised"
             THEN /\ Fail(IF run.stage = "initialize" THEN InitializeError ELSE AttributesError)
                  /\ calls' = calls \o index_calls
                  /\ UNCHANGED sessions
             ELSE IF format_products_raises(run.matches)
             THEN /\ Fail(MetadataError)
                  /\ calls' = calls \o index_calls
                  /\ UNCHANGED sessions
             ELSE IF generate_search_response_raises(intent)
             THEN /\ Fail(AttributesError)
                  /\ calls' = calls \o index_calls
                  /\ UNCHANGED sessions
             ELSE /\ calls' = calls \o index_calls
                        \o <<GeneratorCall("search_response",
                                           [system |-> SearchSystemPrompt,
                                            user |-> SearchPrompt(intent, products)],
                                           genReply)>>
                  /\ Respond(MkResponse(generate_search_response(intent, products, genReply),
                                        products, ACTION_SEARCH))
    /\ UNCHANGED <<turns, user_message, session_id, classifier_status, intent, action,
                   allocated, other_callers>>

(***************************************************************************)
(* process_message, lines 144-149 with action = clarify: _execute_clarify. *)
(***************************************************************************)
\* A plausible slip: the intent's question ignored.
execute_clarify_generic(i) == MkResponse(GenericClarification, <<>>, ACTION_CLARIFY)

execute_clarify(i) ==
    LET clarification == i.clarification_question
    IN MkResponse(IF Truthy(clarification) THEN clarification ELSE GenericClarification,
                  <<>>, ACTION_CLARIFY)

ExecuteClarify ==
    /\ pc = "action_decided"
    /\ action = ACTION_CLARIFY
    /\ Respond(execute_clarify(intent))
    /\ UNCHANGED <<initialized, turns, user_message, session_id, classifier_status,
                   intent, action, search_run, calls, allocated, other_callers>>

(***************************************************************************)
(* process_message, lines 144-149 with action = chat: _execute_chat.  An   *)
(* off_topic intent returns the boundary message before the generator is   *)
(* called.                                                                 *)
(***************************************************************************)
ChatMessages(session, msg) ==
    <<[role |-> "system", content |-> "<chat system prompt>"]>>
        \o get_context_window(session, ContextWindow)
        \o <<[role |-> "user", content |-> msg]>>

\* A plausible slip: the off_topic test left out.
execute_chat_no_boundary(i, genReply) ==
    MkResponse(IF genReply.status = "ok" THEN genReply.text ELSE ChatFallback,
               <<>>, ACTION_CHAT)

execute_chat(i, genReply) ==
    IF GetOr(i.intent_type, "general_question") = "off_topic"
    THEN MkResponse(BoundaryMessage, <<>>, ACTION_CHAT)
    ELSE MkResponse(IF genReply.status = "ok" THEN genReply.text ELSE ChatFallback,
                    <<>>, ACTION_CHAT)

ExecuteChat(genReply) ==
    /\ pc = "action_decided"
    /\ action = ACTION_CHAT
    /\ calls' = IF GetOr(intent.intent_type, "general_question") = "off_topic"
                THEN calls
                ELSE Append(calls, GeneratorCall("chat",
                                                 ChatMessages(sessions[session_id], user_message),
                                                 genReply))
    /\ Respond(execute_chat(intent, genReply))
    /\ UNCHANGED <<initialized, turns, user_message, session_id, classifier_status,
                   intent, action, search_run, allocated, other_callers>>

(***************************************************************************)
(* The caller has its response; the next call may start.                   *)
(***************************************************************************)
Return ==
    /\ pc = "responded"
    /\ pc' = "idle"
    /\ user_message' = Absent
    /\ session_id' = Absent
    /\ classifier_status' = "none"
    /\ intent' = NoIntent
    /\ action' = Absent
    /\ search_run' = NoSearchRun
    /\ failure' = Absent
    /\ response_data' = NoResponse
    /\ calls' = <<>>
    /\ UNCHANGED <<sessions, initialized, turns, allocated, other_callers>>

Next ==
    \/ \E sid \in SessionIds, msg \in Messages : Receive(sid, msg)
    \/ \E reply \in ClassifierReplies : ExtractIntent(reply)
    \/ DecideAction
    \/ \E initOk \in BOOLEAN, reply \in IndexReplies, genReply \in GeneratorReplies :
          ExecuteSearch(initOk, reply, genReply)
    \/ ExecuteClarify
    \/ \E genReply \in GeneratorReplies : ExecuteChat(genReply)
    \/ Return

Spec == Init /\ [][Next]_vars

(***************************************************************************)
(* One turn from every classifier reply.  SpecTurn starts where            *)
(* _extract_intent has returned, for every combination of the routing      *)
(* fields, and runs the rest of process_message.                           *)
(***************************************************************************)
TurnConfidences ==
    {Num(0), Num(40), Num(59), Num(60), Num(61), Num(95), Num(100), ConfNull, ConfStr, ConfAbsent}

TurnBundles ==
    { <<"Saree", "Ajrakh Saree", SareeAttrs, "indigo ajrakh cotton saree">>,
      <<Absent, Absent, AbsentAttrs, BlankQuery>>,
      <<Null, Null, NullAttrs, "saree">>,
      <<"Saree", Absent, StrAttrs, "saree">>,
      <<Absent, Absent, EmptyAttrs, Null>> }

ClarificationQuestions == {Absent, Null, "", "Which fabric would you like?"}

TurnObjects ==
    { MkIntent(ty, b[1], b[2], b[3], b[4], conf, nc, cq) :
        ty \in IntentTypes \cup {Absent}, b \in TurnBundles, conf \in TurnConfidences,
        nc \in {"true", "false", Absent, Null}, cq \in ClarificationQuestions }

TurnReplies ==
    { [status |-> st, obj |-> NoIntent] : st \in {"call_failed", "unparsable", "non_object"} }
        \cup { [status |-> "object", obj |-> o] : o \in TurnObjects }

\* The state of process_message after line 136, in a new session.
AfterExtract(sid, msg, reply, ini) ==
    LET session == add_message(NewSession(sid, 1), "user", msg)
    IN /\ sessions = [k \in {sid} |-> extract_intent_session(session, reply)]
       /\ allocated = [NoneAllocated EXCEPT ![sid] = 1]
       /\ store_call = NoStoreCall
       /\ held = {}
       /\ threads = NoThreads
       /\ bot_service = "BotService"
       /\ request = NoRequest
       /\ http_response = NoHttpResponse
       /\ initialized = ini
       /\ pc = "intent_extracted"
       /\ turns = 1
       /\ user_message = msg
       /\ session_id = sid
       /\ classifier_status = reply.status
       /\ intent = extract_intent_result(msg, reply)
       /\ action = Absent
       /\ search_run = NoSearchRun
       /\ failure = Absent
       /\ response_data = NoResponse
       /\ calls = <<[to |-> "classifier", op |-> "complete",
                     messages |-> ClassifierMessages(session, msg)]>>

InitTurn ==
    \E msg \in Messages, reply \in TurnReplies, ini \in BOOLEAN :
        AfterExtract("s1", msg, reply, ini)

Execute ==
    \/ \E initOk \in BOOLEAN, reply \in IndexReplies, genReply \in GeneratorReplies :
          ExecuteSearch(initOk, reply, genReply)
    \/ ExecuteClarify
    \/ \E genReply \in GeneratorReplies : ExecuteChat(genReply)

NextTurn == DecideAction \/ Execute

SpecTurn == InitTurn /\ [][NextTurn]_vars

(***************************************************************************)
(* _build_filter on every intent_data.  SpecFilter starts where a product  *)
(* search has been routed to _execute_search, for every combination of     *)
(* category, subcategory and attributes, and runs _execute_search.         *)
(***************************************************************************)
FilterAttributes ==
    { [kind |-> "map", color |-> c, fabric |-> f, technique |-> t, pattern |-> p,
       price_min |-> pm[1], price_max |-> pm[2], price_range |-> pr] :
        c \in {Absent, "", "indigo"}, f \in {Absent, Null, "cotton"},
        t \in {Absent, "ajrakh"}, p \in {Absent, "Floral"},
        pm \in {<<Absent, Absent>>, <<Absent, "3000">>, <<"1000", "3000">>},
        pr \in {NoPriceRange, TextPriceRange, DictPriceRange("1000", "3000"),
                DictPriceRange(Absent, "3000")} }
        \cup {AbsentAttrs}

FilterObjects ==
    { MkIntent("product_search", cat, sub, attrs, "saree", Num(95), "false", Absent) :
        cat \in {Absent, "", "Saree"}, sub \in {Absent, "Ajrakh Saree"},
        attrs \in FilterAttributes }

InitFilter ==
    \E o \in FilterObjects :
        LET msg == "Do you have indigo ajrakh cotton saree under 3000?"
            reply == [status |-> "object", obj |-> o]
            session == add_message(NewSession("s1", 1), "user", msg)
        IN /\ sessions = [k \in {"s1"} |-> extract_intent_session(session, reply)]
           /\ allocated = [NoneAllocated EXCEPT !["s1"] = 1]
           /\ store_call = NoStoreCall
           /\ held = {}
           /\ threads = NoThreads
           /\ bot_service = "BotService"
           /\ request = NoRequest
           /\ http_response = NoHttpResponse
           /\ initialized = TRUE
           /\ pc = "action_decided"
           /\ turns = 1
           /\ user_message = msg
           /\ session_id = "s1"
           /\ classifier_status = "object"
           /\ intent = o
           /\ action = decide_action(o)
           /\ search_run = NoSearchRun
           /\ failure = Absent
           /\ response_data = NoResponse
           /\ calls = <<[to |-> "classifier", op |-> "complete",
                         messages |-> ClassifierMessages(session, msg)]>>

NextFilter ==
    \E initOk \in BOOLEAN, reply \in IndexReplies, genReply \in GeneratorReplies :
        ExecuteSearch(initOk, reply, genReply)

SpecFilter == InitFilter /\ [][NextFilter]_vars

(***************************************************************************)
(* Turns on a session that already has a history.  SpecHistory starts      *)
(* after up to MaxPriorTurns earlier process_message calls on session s1,  *)
(* each of which ended in the generic clarification because the classifier *)
(* call failed (so the context is still empty), and runs further turns on  *)
(* that session; turns counts the calls started from there.  With three    *)
(* earlier turns the history is longer than the view of ContextWindow      *)
(* messages.                                                               *)
(***************************************************************************)
RECURSIVE AfterTurns(_, _)
AfterTurns(session, texts) ==
    IF Len(texts) = 0 THEN session
    ELSE AfterTurns(add_message(add_message(session, "user", Head(texts)),
                                "assistant", GenericClarification),
                    Tail(texts))

PriorTexts == UNION { [1..k -> Messages] : k \in 0..MaxPriorTurns }

HistoryReplies ==
    { [status |-> "call_failed", obj |-> NoIntent],
      [status |-> "object", obj |-> SareeIntent("greeting", Num(95), "false", Absent)],
      [status |-> "object", obj |-> SareeIntent("product_search", Num(95), "false", Absent)],
      [status |-> "object", obj |-> SareeIntent("off_topic", ConfNull, "false", Absent)] }

HistoryIndexReplies ==
    { [status |-> "no_result", hits |-> <<>>],
      [status |-> "hits", hits |-> <<HitSaree, HitSuit>>] }

InitHistory ==
    \E texts \in PriorTexts :
        /\ sessions = IF Len(texts) = 0 THEN NoSessions
                      ELSE [k \in {"s1"} |-> AfterTurns(NewSession("s1", 1), texts)]
        /\ allocated = IF Len(texts) = 0 THEN NoneAllocated
                       ELSE [NoneAllocated EXCEPT !["s1"] = 1]
        /\ initialized = FALSE
        /\ pc = "idle"
        /\ turns = 0
        /\ user_message = Absent
        /\ session_id = Absent
        /\ classifier_status = "none"
        /\ intent = NoIntent
        /\ action = Absent
        /\ search_run = NoSearchRun
        /\ failure = Absent
        /\ response_data = NoResponse
        /\ calls = <<>>
        /\ store_call = NoStoreCall
        /\ held = {}
        /\ threads = NoThreads
        /\ bot_service = "BotService"
        /\ request = NoRequest
        /\ http_response = NoHttpResponse

NextHistory ==
    \/ Receive("s1", "What's the weather?")
    \/ \E reply \in HistoryReplies : ExtractIntent(reply)
    \/ DecideAction
    \/ \E initOk \in BOOLEAN, reply \in HistoryIndexReplies, genReply \in GeneratorReplies :
          ExecuteSearch(initOk, reply, genReply)
    \/ ExecuteClarify
    \/ \E genReply \in GeneratorReplies : ExecuteChat(genReply)
    \/ Return

SpecHistory == InitHistory /\ [][NextHistory]_vars

(***************************************************************************)
(* The session operations called directly: get_or_create_session and       *)
(* clear_session of BotService, add_message, update_context and            *)
(* get_context_window of ConversationSession.  store_call records the      *)
(* last call and what it returned; held is the set of session objects      *)
(* (key, object number) the caller has been handed so far.                 *)
(***************************************************************************)
\* A plausible slip: the session emptied in place instead of removed.
clear_session_in_place(store, sid) ==
    IF sid \in DOMAIN store
    THEN [store EXCEPT ![sid] = NewSession(sid, store[sid].object)]
    ELSE store

\* A plausible slip: self.sessions.clear() instead of del self.sessions[session_id].
clear_session_every_key(store, sid) ==
    IF sid \in DOMAIN store THEN NoSessions ELSE store

\* BotService.clear_session: the store after the call.
clear_session(store, sid) == [k \in DOMAIN store \ {sid} |-> store[k]]

StoreCall(op, key, n, result) == [op |-> op, key |-> key, n |-> n, result |-> result]

\* The entries the caller appends.
StoreEntries ==
    { [role |-> "user", content |-> "What's the weather?"],
      [role |-> "assistant", content |-> GenericClarification] }

ViewSizes == 0..(MaxHistory + 1)

RECURSIVE StoredMessages(_, _)
StoredMessages(store, keys) ==
    IF keys = {} THEN 0
    ELSE LET k == CHOOSE x \in keys : TRUE
         IN Len(store[k].messages) + StoredMessages(store, keys \ {k})

turn_in_flight ==
    <<initialized, pc, turns, user_message, session_id, classifier_status, intent, action,
      search_run, failure, response_data, calls, threads, bot_service, request,
      http_response>>

GetOrCreateSession(sid) ==
    /\ sid \in DOMAIN sessions \/ allocated[sid] < MaxObjects
    /\ sessions' = get_or_create_session(sessions, sid, allocated)
    /\ allocated' = constructed(sessions, sid, allocated)
    /\ store_call' = StoreCall("get_or_create_session", sid, 0, sessions'[sid])
    /\ held' = held \cup {<<sid, sessions'[sid].object>>}
    /\ UNCHANGED turn_in_flight

AddMessage(sid, entry) ==
    /\ sid \in DOMAIN sessions
    /\ StoredMessages(sessions, DOMAIN sessions) < MaxHistory
    /\ sessions' = [sessions EXCEPT ![sid] = add_message(@, entry.role, entry.content)]
    /\ store_call' = StoreCall("add_message", sid, 0, Null)
    /\ UNCHANGED <<allocated, held, turn_in_flight>>

UpdateContext(sid, value) ==
    /\ sid \in DOMAIN sessions
    /\ sessions' = [sessions EXCEPT ![sid] = update_context(@, "last_category", value)]
    /\ store_call' = StoreCall("update_context", sid, 0, Null)
    /\ UNCHANGED <<allocated, held, turn_in_flight>>

GetContextWindow(sid, n) ==
    /\ sid \in DOMAIN sessions
    /\ store_call' = StoreCall("get_context_window", sid, n, get_context_window(sessions[sid], n))
    /\ UNCHANGED <<sessions, allocated, held, turn_in_flight>>

ClearSession(sid) ==
    /\ sessions' = clear_session(sessions, sid)
    /\ store_call' = StoreCall("clear_session", sid, 0, Null)
    /\ UNCHANGED <<allocated, held, turn_in_flight>>

NextStore ==
    \/ \E sid \in SessionIds : GetOrCreateSession(sid)
    \/ \E sid \in SessionIds, entry \in StoreEntries : AddMessage(sid, entry)
    \/ \E sid \in SessionIds : UpdateContext(sid, "Saree")
    \/ \E sid \in SessionIds, n \in ViewSizes : GetContextWindow(sid, n)
    \/ \E sid \in SessionIds : ClearSession(sid)

SpecStore == Init /\ [][NextStore]_vars

(***************************************************************************)
(* _execute_action as a function of the collaborators' behaviour: the      *)
(* exception that leaves it (Absent when it returns), the dictionary it    *)
(* returns, and the search service's _initialized flag afterwards.         *)
(***************************************************************************)
execute_search(i, ini, initOk, reply, genReply) ==
    LET search_query == GetOr(i.search_query, "")
        intent_data == MkIntentData(PyGet(i.category), PyGet(i.subcategory), IntentAttributes(i))
        run == search(search_query, intent_data, SearchTopK, ini, initOk, reply)
        products == format_products(run.matches)
        raised ==
            IF run.outcome = "raised"
            THEN (IF run.stage = "initialize" THEN InitializeError ELSE AttributesError)
            ELSE IF format_products_raises(run.matches) THEN MetadataError
            ELSE IF generate_search_response_raises(i) THEN AttributesError
            ELSE Absent
    IN [failure |-> raised,
        response_data |-> IF raised # Absent THEN NoResponse
                          ELSE MkResponse(generate_search_response(i, products, genReply),
                                          products, ACTION_SEARCH),
        initialized |-> run.initialized]

execute_action(a, i, ini, initOk, reply, genReply) ==
    IF a = ACTION_SEARCH THEN execute_search(i, ini, initOk, reply, genReply)
    ELSE IF a = ACTION_CLARIFY
    THEN [failure |-> Absent, response_data |-> execute_clarify(i), initialized |-> ini]
    ELSE [failure |-> Absent, response_data |-> execute_chat(i, genReply), initialized |-> ini]

(***************************************************************************)
(* Concurrent callers.  Each thread serves one request: it runs            *)
(* process_message once, statement by statement, and another thread may    *)
(* run between any two of its statements.  Nothing in BotService or        *)
(* ConversationSession takes a lock.  A thread's local `session` is a      *)
(* reference: ref is the object number of the session it was handed, and   *)
(* when that object is no longer the one in the store (another thread has  *)
(* stored a new session under the key) the thread keeps working on the     *)
(* unreachable object, kept in its orphan field.                           *)
(***************************************************************************)
\* The text each thread's request carries.
ThreadMessage ==
    [t \in Threads |->
        IF t = "t1" THEN "Do you have indigo ajrakh cotton saree under 3000?"
        ELSE "What's the weather?"]

ThreadReplies ==
    { [status |-> "call_failed", obj |-> NoIntent],
      [status |-> "object", obj |-> SareeIntent("greeting", Num(95), "false", Absent)],
      [status |-> "object", obj |-> SareeIntent("product_search", Num(95), "false", Absent)],
      [status |-> "object", obj |-> SareeIntent("product_search", ConfNull, "false", Absent)] }

ThreadIndexReplies ==
    { [status |-> "fail", hits |-> <<>>],
      [status |-> "hits", hits |-> <<HitSaree, HitSuit>>],
      [status |-> "hits", hits |-> <<HitNullFields>>] }

InFlight(t) == threads[t].pc \notin {"idle", "done"}

HasSession(t) ==
    threads[t].pc \in {"got_session", "received", "intent_extracted", "action_decided", "done"}

\* The thread's session object is the one stored under its key.
InStore(t) ==
    /\ threads[t].session_id \in DOMAIN sessions
    /\ sessions[threads[t].session_id].object = threads[t].ref

\* The object the thread's local `session` refers to.
Deref(t) == IF InStore(t) THEN sessions[threads[t].session_id] ELSE threads[t].orphan

\* The store after the thread's session object has become rec.
StoreAfter(t, rec) ==
    IF InStore(t) THEN [sessions EXCEPT ![threads[t].session_id] = rec] ELSE sessions

OrphanAfter(t, rec) == IF InStore(t) THEN threads[t].orphan ELSE rec

\* What the concurrent callers leave alone: the locals of the sequential
\* caller and the direct calls of the session operations.
sequential_call ==
    <<pc, user_message, session_id, classifier_status, intent, action, search_run, failure,
      response_data, calls, store_call, held, bot_service, request, http_response>>

\* process_message is entered.
T_Call(t, sid) ==
    /\ threads[t].pc = "idle"
    /\ turns < MaxTurns
    /\ turns' = turns + 1
    /\ threads' = [threads EXCEPT ![t] = [@ EXCEPT !.pc = "lookup", !.session_id = sid,
                                                  !.user_message = ThreadMessage[t]]]
    /\ UNCHANGED <<sessions, initialized, allocated>>
    /\ UNCHANGED sequential_call

\* get_or_create_session, line 112: `if session_id not in self.sessions`.
T_Lookup(t) ==
    /\ threads[t].pc = "lookup"
    /\ threads' = [threads EXCEPT ![t] =
            [@ EXCEPT !.pc = IF threads[t].session_id \in DOMAIN sessions
                             THEN "fetch" ELSE "create"]]
    /\ UNCHANGED <<sessions, initialized, allocated, turns>>
    /\ UNCHANGED sequential_call

\* get_or_create_session, line 113: a new session is stored under the key,
\* replacing the one another thread may have stored since line 112.
T_Create(t) ==
    /\ threads[t].pc = "create"
    /\ LET sid == threads[t].session_id
           replaced == sid \in DOMAIN sessions
       IN /\ sessions' = [k \in DOMAIN sessions \cup {sid} |->
                            IF k = sid THEN NewSession(sid, allocated[sid] + 1) ELSE sessions[k]]
          /\ allocated' = [allocated EXCEPT ![sid] = @ + 1]
          /\ threads' = [u \in Threads |->
                IF u = t THEN [threads[u] EXCEPT !.pc = "fetch"]
                ELSE IF replaced /\ HasSession(u) /\ threads[u].session_id = sid /\ InStore(u)
                THEN [threads[u] EXCEPT !.orphan = sessions[sid]]
                ELSE threads[u]]
    /\ UNCHANGED <<initialized, turns>>
    /\ UNCHANGED sequential_call

\* get_or_create_session, line 115: `return self.sessions[session_id]`.
T_Fetch(t) ==
    /\ threads[t].pc = "fetch"
    /\ threads' = [threads EXCEPT ![t] =
            [@ EXCEPT !.pc = "got_session", !.ref = sessions[threads[t].session_id].object]]
    /\ UNCHANGED <<sessions, initialized, allocated, turns>>
    /\ UNCHANGED sequential_call

\* process_message, line 133.
T_AddUser(t) ==
    /\ threads[t].pc = "got_session"
    /\ LET rec == add_message(Deref(t), "user", threads[t].user_message)
       IN /\ sessions' = StoreAfter(t, rec)
          /\ threads' = [threads EXCEPT ![t] =
                [@ EXCEPT !.pc = "received", !.orphan = OrphanAfter(t, rec)]]
    /\ UNCHANGED <<initialized, allocated, turns>>
    /\ UNCHANGED sequential_call

\* process_message, line 136: the view of the history is taken, the
\* classifier is called and the context is updated.  in_flight remembers
\* which other calls were running when the view was taken.
T_ExtractIntent(t, reply) ==
    /\ threads[t].pc = "received"
    /\ LET rec == extract_intent_session(Deref(t), reply)
       IN /\ sessions' = StoreAfter(t, rec)
          /\ threads' = [threads EXCEPT ![t] =
                [@ EXCEPT !.pc = "intent_extracted",
                          !.view = ClassifierMessages(Deref(t), threads[t].user_message),
                          !.in_flight = {u \in Threads \ {t} : InFlight(u)},
                          !.intent = extract_intent_result(threads[t].user_message, reply),
                          !.orphan = OrphanAfter(t, rec)]]
    /\ UNCHANGED <<initialized, allocated, turns>>
    /\ UNCHANGED sequential_call

\* process_message, line 140, and the except branch when it raises.
T_DecideAction(t) ==
    /\ threads[t].pc = "intent_extracted"
    /\ LET a == decide_action(threads[t].intent)
       IN threads' = [threads EXCEPT ![t] =
            IF a = Raise
            THEN [@ EXCEPT !.pc = "done", !.failure = ConfidenceTypeError,
                           !.response_data = ErrorResponse(ConfidenceTypeError)]
            ELSE [@ EXCEPT !.pc = "action_decided", !.action = a]]
    /\ UNCHANGED <<sessions, initialized, allocated, turns>>
    /\ UNCHANGED sequential_call

\* process_message, lines 144-149, and the except branch when _execute_action
\* raises: the reply is appended to the thread's session object and returned.
T_Execute(t, initOk, reply, genReply) ==
    /\ threads[t].pc = "action_decided"
    /\ LET out == execute_action(threads[t].action, threads[t].intent, initialized,
                                 initOk, reply, genReply)
           rec == add_message(Deref(t), "assistant", out.response_data.response)
       IN /\ initialized' = out.initialized
          /\ IF out.failure # Absent
             THEN /\ threads' = [threads EXCEPT ![t] =
                        [@ EXCEPT !.pc = "done", !.failure = out.failure,
                                  !.response_data = ErrorResponse(out.failure)]]
                  /\ UNCHANGED sessions
             ELSE /\ sessions' = StoreAfter(t, rec)
                  /\ threads' = [threads EXCEPT ![t] =
                        [@ EXCEPT !.pc = "done", !.response_data = out.response_data,
                                  !.orphan = OrphanAfter(t, rec)]]
    /\ UNCHANGED <<allocated, turns>>
    /\ UNCHANGED sequential_call

NextConcurrent ==
    \/ \E t \in Threads, sid \in SessionIds : T_Call(t, sid)
    \/ \E t \in Threads : T_Lookup(t)
    \/ \E t \in Threads : T_Create(t)
    \/ \E t \in Threads : T_Fetch(t)
    \/ \E t \in Threads : T_AddUser(t)
    \/ \E t \in Threads, reply \in ThreadReplies : T_ExtractIntent(t, reply)
    \/ \E t \in Threads : T_DecideAction(t)
    \/ \E t \in Threads, initOk \in BOOLEAN, reply \in ThreadIndexReplies,
          genReply \in GeneratorReplies : T_Execute(t, initOk, reply, genReply)

SpecConcurrent == Init /\ [][NextConcurrent]_vars

(***************************************************************************)
(* Turns on two session keys with session operations between them.         *)
(* SpecIsolation runs process_message on either key and, while no call is  *)
(* in flight, update_context and clear_session on either key.              *)
(***************************************************************************)
UpdateContextBetweenTurns(sid) ==
    /\ pc = "idle"
    /\ UpdateContext(sid, "Suit Set")

ClearSessionBetweenTurns(sid) ==
    /\ pc = "idle"
    /\ ClearSession(sid)

NextIsolation ==
    \/ \E sid \in SessionIds, msg \in Messages : Receive(sid, msg)
    \/ \E reply \in HistoryReplies : ExtractIntent(reply)
    \/ DecideAction
    \/ \E initOk \in BOOLEAN, reply \in HistoryIndexReplies, genReply \in GeneratorReplies :
          ExecuteSearch(initOk, reply, genReply)
    \/ ExecuteClarify
    \/ \E genReply \in GeneratorReplies : ExecuteChat(genReply)
    \/ Return
    \/ \E sid \in SessionIds : UpdateContextBetweenTurns(sid)
    \/ \E sid \in SessionIds : ClearSessionBetweenTurns(sid)

SpecIsolation == Init /\ [][NextIsolation]_vars


(***************************************************************************)
(* Search turns with more matches than the generator is shown.             *)
(* SpecSearch starts where a product search has been routed to             *)
(* _execute_search and runs it on replies of up to MaxHits distinct hits,  *)
(* in ascending and descending order of score from any first hit.          *)
(***************************************************************************)
\* The hit of the catalogue's i-th product.
CatalogueHit(i) ==
    MkHit("p" \o IntStr(i), NumVal(90000 - 1000 * i),
          [SareeFields EXCEPT !.product_name = "Ajrakh Saree " \o IntStr(i),
                              !.price = NumVal(2000 + 150 * i)])

\* Replies of n distinct hits: the catalogue read from any product on, upwards
\* or downwards, wrapping around.
RankedHitLists ==
    { [k \in 1..n |-> CatalogueHit(((first + step * k) % MaxHits) + 1)] :
        n \in 0..MaxHits, first \in 0..(MaxHits - 1), step \in {1, MaxHits - 1} }

RankedReplies == { [status |-> "hits", hits |-> h] : h \in RankedHitLists }

InitSearch ==
    \E ini \in BOOLEAN :
        LET msg == "Do you have indigo ajrakh cotton saree under 3000?"
            o == SareeIntent("product_search", Num(95), "false", Absent)
            reply == [status |-> "object", obj |-> o]
            session == add_message(NewSession("s1", 1), "user", msg)
        IN /\ sessions = [k \in {"s1"} |-> extract_intent_session(session, reply)]
           /\ allocated = [NoneAllocated EXCEPT !["s1"] = 1]
           /\ store_call = NoStoreCall
           /\ held = {}
           /\ threads = NoThreads
           /\ bot_service = "BotService"
           /\ request = NoRequest
           /\ http_response = NoHttpResponse
           /\ initialized = ini
           /\ pc = "action_decided"
           /\ turns = 1
           /\ user_message = msg
           /\ session_id = "s1"
           /\ classifier_status = "object"
           /\ intent = o
           /\ action = decide_action(o)
           /\ search_run = NoSearchRun
           /\ failure = Absent
           /\ response_data = NoResponse
           /\ calls = <<[to |-> "classifier", op |-> "complete",
                         messages |-> ClassifierMessages(session, msg)]>>

NextSearch ==
    \E initOk \in BOOLEAN, reply \in RankedReplies, genReply \in GeneratorReplies :
        ExecuteSearch(initOk, reply, genReply)

SpecSearch == InitSearch /\ [][NextSearch]_vars


(***************************************************************************)
(* process_message as a function of its arguments, of the store and of     *)
(* what the collaborators do in the turn: the store, the construction      *)
(* counts and the _initialized flag afterwards, the locals of the call,    *)
(* the exception caught at the boundary (Absent when none), the dictionary *)
(* returned and the collaborator calls made, in order.                     *)
(***************************************************************************)
process_message(store, alloc, ini, msg, sid, reply, initOk, idxReply, genReply) ==
    LET created == get_or_create_session(store, sid, alloc)
        received == add_message(created[sid], "user", msg)
        i == extract_intent_result(msg, reply)
        extracted == extract_intent_session(received, reply)
        a == decide_action(i)
        run == IF a = ACTION_SEARCH
               THEN search(GetOr(i.search_query, ""),
                           MkIntentData(PyGet(i.category), PyGet(i.subcategory),
                                        IntentAttributes(i)),
                           SearchTopK, ini, initOk, idxReply)
               ELSE NoSearchRun
        out == IF a = Raise
               THEN [failure |-> ConfidenceTypeError, response_data |-> NoResponse,
                     initialized |-> ini]
               ELSE execute_action(a, i, ini, initOk, idxReply, genReply)
        classifier_call == [to |-> "classifier", op |-> "complete",
                            messages |-> ClassifierMessages(received, msg)]
        index_calls == IF a = ACTION_SEARCH THEN IndexCalls(ini, run) ELSE <<>>
        generator_calls ==
            IF out.failure # Absent THEN <<>>
            ELSE IF a = ACTION_SEARCH
            THEN <<GeneratorCall("search_response",
                                 [system |-> SearchSystemPrompt,
                                  user |-> SearchPrompt(i, format_products(run.matches))],
                                 genReply)>>
            ELSE IF a = ACTION_CHAT /\ GetOr(i.intent_type, "general_question") # "off_topic"
            THEN <<GeneratorCall("chat", ChatMessages(extracted, msg), genReply)>>
            ELSE <<>>
        answered == IF out.failure = Absent
                    THEN add_message(extracted, "assistant", out.response_data.response)
                    ELSE extracted
    IN [sessions |-> [created EXCEPT ![sid] = answered],
        allocated |-> constructed(store, sid, alloc),
        initialized |-> out.initialized,
        classifier_status |-> reply.status,
        intent |-> i,
        action |-> IF a = Raise THEN Absent ELSE a,
        search_run |-> run,
        failure |-> out.failure,
        response_data |-> IF out.failure = Absent THEN out.response_data
                          ELSE ErrorResponse(out.failure),
        calls |-> <<classifier_call>> \o index_calls \o generator_calls]

(***************************************************************************)
(* index.py: handler.do_POST with MODE = 'bot'.  SpecHandler starts when   *)
(* the module is loaded (bot_service is None) and handles POST requests    *)
(* one after the other.  Each request is one step: the body is parsed,     *)
(* the text is validated, the BotService is constructed on first use,      *)
(* process_message is called and the response is sent; every exception     *)
(* raised on the way is answered with status 400 and {error: str(e)}.      *)
(* turns counts the requests handled.                                      *)
(***************************************************************************)
\* A JSON number in the place of the text.
NumberText == "<number>"

\* The session key of a request that names none.
DefaultSessionId == "default"

\* The request bodies of the model: bodies that are not JSON objects, objects
\* without a usable text, and objects with a text in `text`, in `message` or
\* in both.
Requests ==
    { MkRequest("malformed", Absent, Absent, Absent),
      MkRequest("non_object", Absent, Absent, Absent),
      MkRequest("object", Absent, Absent, "s1"),
      MkRequest("object", "", Absent, "s1"),
      MkRequest("object", Absent, BlankQuery, "s1"),
      MkRequest("object", BlankQuery, "What's the weather?", "s1"),
      MkRequest("object", Null, Null, "s1"),
      MkRequest("object", NumberText, Absent, "s1"),
      MkRequest("object", "Do you have indigo ajrakh cotton saree under 3000?", Absent, "s1"),
      MkRequest("object", "Do you have indigo ajrakh cotton saree under 3000?", "What's the weather?", "s1"),
      MkRequest("object", "Do you have indigo ajrakh cotton saree under 3000?", "What's the weather?", Absent),
      MkRequest("object", "", "What's the weather?", "s1"),
      MkRequest("object", Absent, "What's the weather?", "s2") }

\* What the classifier does in the turns of SpecHandler.
HandlerReplies ==
    { [status |-> "call_failed", obj |-> NoIntent],
      [status |-> "object", obj |-> SareeIntent("product_search", Num(95), "false", Absent)] }

\* str(e) of the exceptions do_POST answers with status 400.
JsonError == "JSONDecodeError: the body is not JSON"
KeysError == "AttributeError: the body has no attribute 'keys'"
LenError == "TypeError: the text has no len()"
EmptyTextError == "Text input cannot be empty"
MissingKeyError == "OPENAI_API_KEY must be set in environment variables"

\* data.get('text') or data.get('message', '')
RequestUserText(data) ==
    IF Truthy(data.text) THEN data.text ELSE GetOr(data.message, "")

\* A plausible slip: process_message called before the text is validated.
do_POST_raises_late(data, service, openai_key) ==
    LET user_text == RequestUserText(data)
    IN IF data.kind = "malformed" THEN JsonError
       ELSE IF data.kind = "non_object" THEN KeysError
       ELSE IF user_text \in {Null, NumberText} THEN LenError
       ELSE IF service = "None" /\ ~openai_key THEN MissingKeyError
       ELSE Absent

\* The exception raised before process_message is called, Absent when none.
\* openai_key says whether OPENAI_API_KEY is set.
do_POST_raises(data, service, openai_key) ==
    LET user_text == RequestUserText(data)
    IN IF data.kind = "malformed" THEN JsonError
       ELSE IF data.kind = "non_object" THEN KeysError
       ELSE IF user_text \in {Null, NumberText} THEN LenError
       ELSE IF ~Truthy(user_text) \/ IsBlank(user_text) THEN EmptyTextError
       ELSE IF service = "None" /\ ~openai_key THEN MissingKeyError
       ELSE Absent

do_POST(data, openai_key, reply, initOk, idxReply, genReply) ==
    /\ pc = "idle"
    /\ turns < MaxTurns
    /\ turns' = turns + 1
    /\ request' = data
    /\ LET raised == do_POST_raises(data, bot_service, openai_key)
           user_text == RequestUserText(data)
           sid == GetOr(data.session_id, DefaultSessionId)
       IN IF raised # Absent
          THEN /\ http_response' = MkHttpResponse(400, Absent, <<>>, raised)
               /\ user_message' = Absent
               /\ session_id' = Absent
               /\ classifier_status' = "none"
               /\ intent' = NoIntent
               /\ action' = Absent
               /\ search_run' = NoSearchRun
               /\ failure' = Absent
               /\ response_data' = NoResponse
               /\ calls' = <<>>
               /\ UNCHANGED <<sessions, allocated, initialized, bot_service>>
          ELSE \E out \in {process_message(sessions, allocated, initialized, user_text, sid,
                                            reply, initOk, idxReply, genReply)} :
               /\ bot_service' = "BotService"
               /\ user_message' = user_text
               /\ session_id' = sid
               /\ sessions' = out.sessions
               /\ allocated' = out.allocated
               /\ initialized' = out.initialized
               /\ classifier_status' = out.classifier_status
               /\ intent' = out.intent
               /\ action' = out.action
               /\ search_run' = out.search_run
               /\ failure' = out.failure
               /\ response_data' = out.response_data
               /\ calls' = out.calls
               /\ http_response' = MkHttpResponse(200, out.response_data.response,
                                                  out.response_data.products, Absent)
    /\ UNCHANGED <<pc, store_call, held, threads>>

InitHandler ==
    /\ sessions = NoSessions
    /\ initialized = FALSE
    /\ pc = "idle"
    /\ turns = 0
    /\ user_message = Absent
    /\ session_id = Absent
    /\ classifier_status = "none"
    /\ intent = NoIntent
    /\ action = Absent
    /\ search_run = NoSearchRun
    /\ failure = Absent
    /\ response_data = NoResponse
    /\ calls = <<>>
    /\ allocated = [sid \in SessionIds \cup {DefaultSessionId} |-> 0]
    /\ store_call = NoStoreCall
    /\ held = {}
    /\ threads = NoThreads
    /\ bot_service = "None"
    /\ request = NoRequest
    /\ http_response = NoHttpResponse

NextHandler ==
    \E data \in Requests, openai_key \in BOOLEAN, reply \in HandlerReplies,
       initOk \in BOOLEAN, idxReply \in HistoryIndexReplies, genReply \in GeneratorReplies :
        do_POST(data, openai_key, reply, initOk, idxReply, genReply)

SpecHandler == InitHandler /\ [][NextHandler]_vars


(***************************************************************************)
(* Observations used by the properties.                                    *)
(***************************************************************************)
\* The index collaborator was contacted in the turn in flight.
IndexCalled == \E i \in 1..Len(calls) : calls[i].to = "index"

\* A query was issued to the index in the turn in flight.
IndexQueried == \E i \in 1..Len(calls) : calls[i].to = "index" /\ calls[i].op = "query"

\* search_service.search was called in the turn in flight.
SearchCalled == search_run.outcome # "none"

\* The query text _execute_search hands to search.
SearchQueryText == GetOr(intent.search_query, "")

RECURSIVE TotalMessages(_, _)
TotalMessages(store, keys) ==
    IF keys = {} THEN 0
    ELSE LET k == CHOOSE x \in keys : TRUE
         IN Len(store[k].messages) + TotalMessages(store, keys \ {k})

PresentNonEmpty(v) == v # Absent /\ v # Null /\ v # ""

\* The value of a filterable field in the intent handed to _execute_search.
FilterInput(f) ==
    IF f = "category" THEN intent.category
    ELSE IF f = "subcategory" THEN intent.subcategory
    ELSE IntentAttributes(intent)[f]

(***************************************************************************)
(* C1.  For every intent with a numeric confidence, _decide_action         *)
(* returns the action of the first matching rule: off_topic -> chat;       *)
(* needs_clarification or confidence < 0.6 -> clarify; product_search ->   *)
(* search; otherwise chat.                                                 *)
(***************************************************************************)
RuleAction(i) ==
    IF i.intent_type = "off_topic" THEN "chat"
    ELSE IF i.needs_clarification = "true" \/ i.confidence.pct < 60 THEN "clarify"
    ELSE IF i.intent_type = "product_search" THEN "search"
    ELSE "chat"

C1_RoutingOrder ==
    (pc \in {"action_decided", "responded"} /\ intent.confidence.kind = "num")
        => action = RuleAction(intent)

\* off_topic wins over needs_clarification and over a low confidence.
C1_Witness ==
    /\ pc = "action_decided"
    /\ intent.intent_type = "off_topic"
    /\ intent.needs_clarification = "true"
    /\ intent.confidence = Num(40)
    /\ action = "chat"

(***************************************************************************)
(* C2.  Every call of process_message, the error path included, adds       *)
(* exactly two entries to the session history: the user's message and      *)
(* then the returned response text.  (The except branch returns the        *)
(* apology without recording it.)                                          *)
(***************************************************************************)
C2_TwoEntriesPerCall ==
    pc = "responded" =>
        LET h == sessions[session_id].messages
        IN /\ TotalMessages(sessions, DOMAIN sessions) = 2 * turns
           /\ Len(h) >= 2
           /\ WithoutTimestamp(h[Len(h) - 1]) = [role |-> "user", content |-> user_message]
           /\ WithoutTimestamp(h[Len(h)]) =
                 [role |-> "assistant", content |-> response_data.response]

(***************************************************************************)
(* C3.  No classifier output makes the turn end with action = error:       *)
(* a reply with null, missing or wrongly typed fields is recovered         *)
(* locally.  (A parsed object is returned as it is; a confidence that is   *)
(* not a number or attributes that are not a mapping raise later, outside  *)
(* the try of _extract_intent.)                                            *)
(***************************************************************************)
C3_ClassificationNeverErrors ==
    pc = "responded" =>
        ~(response_data.action = "error" /\ failure \in {ConfidenceTypeError, AttributesError})

(***************************************************************************)
(* C4.  The index is contacted in a turn only if the turn's intent is a    *)
(* product_search with confidence >= 0.6 and needs_clarification false,    *)
(* and never in a turn whose intent is off_topic.                          *)
(***************************************************************************)
C4_SearchOnlyWhenRouted ==
    /\ IndexCalled =>
          /\ intent.intent_type = "product_search"
          /\ intent.confidence.kind = "num"
          /\ intent.confidence.pct >= 60
          /\ intent.needs_clarification = "false"
    /\ intent.intent_type = "off_topic" => ~IndexCalled /\ ~SearchCalled

\* A query issued at exactly the threshold confidence.
C4_Witness ==
    /\ pc = "responded"
    /\ IndexQueried
    /\ intent.confidence = Num(60)
    /\ turns = 2

(***************************************************************************)
(* C5.  process_message never raises to its caller: every turn ends with   *)
(* one response carrying a text, a products sequence and an action in      *)
(* {search, clarify, chat, error}; a failure caught at the boundary gives  *)
(* the fixed apology with action = error and no products.  No response     *)
(* exists before the terminal stage, and a turn in flight can always       *)
(* take its next step.                                                     *)
(***************************************************************************)
C5_AlwaysResponds ==
    /\ pc = "responded" =>
          /\ response_data.response # Absent
          /\ response_data.action \in {"search", "clarify", "chat", "error"}
          /\ response_data.action # "search" => response_data.products = <<>>
          /\ (failure # Absent) <=> (response_data.action = "error")
          /\ failure # Absent =>
                /\ response_data.response = ApologyText
                /\ response_data.products = <<>>
                /\ response_data.error = failure
    /\ pc # "responded" => response_data = NoResponse /\ failure = Absent
    /\ pc \in {"received", "intent_extracted", "action_decided"} => ENABLED Next

\* The turn ended on the error path after the index could not be initialised.
C5_Witness ==
    /\ pc = "responded"
    /\ failure = InitializeError
    /\ response_data.action = "error"

(***************************************************************************)
(* C6.  When the classifier call fails or its output cannot be used,       *)
(* _extract_intent returns the default intent (general_question,           *)
(* search_query = the raw user text, confidence 0.5, needs_clarification   *)
(* false) and the turn ends with an action other than error.               *)
(***************************************************************************)
ClassifierFailed == classifier_status \in {"call_failed", "unparsable", "non_object"}

C6_FailSoft ==
    ClassifierFailed =>
        /\ intent.intent_type = "general_question"
        /\ intent.search_query = user_message
        /\ intent.confidence = Num(50)
        /\ intent.needs_clarification = "false"
        /\ pc = "responded" => response_data.action \in {"search", "clarify", "chat"}

C6_Witness ==
    /\ classifier_status = "unparsable"
    /\ pc = "responded"
    /\ response_data.action = "clarify"
    /\ intent.search_query = "What's the weather?"

(***************************************************************************)
(* C7.  The filter's price constraint is a range whose lower bound is      *)
(* attributes.price_min and whose upper bound is attributes.price_max,     *)
(* each bound present exactly when its attribute is.  (_build_filter       *)
(* reads attributes.price_range.min/max and never price_min/price_max.)    *)
(***************************************************************************)
C7_PriceFromMinMax ==
    search_run.filter_state = "built" =>
        LET a == IntentAttributes(intent)
            f == search_run.filter_dict
            lo == IF PresentNonEmpty(a.price_min) THEN a.price_min ELSE Absent
            hi == IF PresentNonEmpty(a.price_max) THEN a.price_max ELSE Absent
        IN /\ ("price" \in DOMAIN f) <=> (lo # Absent \/ hi # Absent)
           /\ "price" \in DOMAIN f => f["price"] = [eq |-> Absent, gte |-> lo, lte |-> hi]

(***************************************************************************)
(* C8.  _build_filter gives an equality constraint on each of category,    *)
(* subcategory, color, fabric, technique, pattern exactly when the field   *)
(* is present and non-empty in its input, with the value unchanged; with   *)
(* no category, subcategory or attributes the filter is empty.             *)
(***************************************************************************)
C8_EqualityConstraints ==
    search_run.filter_state = "built" =>
        LET f == search_run.filter_dict
        IN /\ \A k \in FilterEqFields :
                /\ (k \in DOMAIN f) <=> PresentNonEmpty(FilterInput(k))
                /\ k \in DOMAIN f =>
                      f[k] = [eq |-> FilterInput(k), gte |-> Absent, lte |-> Absent]
           /\ (/\ intent.category = Absent
               /\ intent.subcategory = Absent
               /\ intent.attributes.kind = "absent") => DOMAIN f = {}

\* An empty color is skipped while the fabric and category are constrained.
C8_Witness ==
    /\ search_run.filter_state = "built"
    /\ intent.category = "Saree"
    /\ intent.attributes.kind = "map"
    /\ intent.attributes.color = ""
    /\ intent.attributes.fabric = "cotton"
    /\ DOMAIN search_run.filter_dict = {"category", "fabric"}

(***************************************************************************)
(* C9.  search never propagates a collaborator failure (initialisation,    *)
(* query, malformed response): it returns an empty sequence and the turn   *)
(* ends with action = search and no products.  (_initialize runs before    *)
(* the try block of search.)                                               *)
(***************************************************************************)
CollaboratorFailed == search_run.stage \in {"initialize", "except"}

C9_SearchNeverPropagates ==
    (pc = "responded" /\ SearchCalled /\ CollaboratorFailed) =>
        /\ search_run.outcome = "returned"
        /\ search_run.matches = <<>>
        /\ response_data.action = "search"
        /\ response_data.products = <<>>

(***************************************************************************)
(* C10.  search called with an empty or whitespace-only query text         *)
(* returns an empty sequence and issues no query to the index.             *)
(***************************************************************************)
C10_BlankQueryReturnsEmpty ==
    (SearchCalled /\ SearchQueryText \in {"", BlankQuery}) =>
        /\ search_run.outcome = "returned"
        /\ search_run.matches = <<>>
        /\ ~IndexQueried

(***************************************************************************)
(* C11.  The query sent to the index carries no filter when the filter     *)
(* built for the search is empty, and carries the built filter's           *)
(* constraints when it is non-empty.  (The lines that add the filter to    *)
(* query_params are commented out: the built filter is only logged.)       *)
(***************************************************************************)
C11_QueryCarriesFilter ==
    (search_run.filter_state = "built" /\ search_run.query.sent) =>
        LET f == search_run.filter_dict
            q == search_run.query
        IN /\ DOMAIN f = {} => ~q.has_filter
           /\ DOMAIN f # {} => q.has_filter /\ q.filter = f

(***************************************************************************)
(* C12.  The matches returned by search are ordered by descending score,   *)
(* whatever the order of the hits in the index's reply.  (The hits are     *)
(* converted in the order received; nothing sorts them.)                   *)
(***************************************************************************)
C12_DescendingScore ==
    search_run.outcome = "returned" =>
        LET m == search_run.matches
        IN \A i, j \in 1..Len(m) :
              (i < j /\ m[i].score.kind = "num" /\ m[j].score.kind = "num")
                  => m[i].score.val >= m[j].score.val

(***************************************************************************)
(* C13.  When two process_message calls for the same session key run       *)
(* concurrently and neither fails, their history appends do not            *)
(* interleave: every user entry is immediately followed by the assistant   *)
(* reply of the same turn, and the view handed to the classifier for one   *)
(* turn never contains the user message of another turn in flight.         *)
(* (Nothing serialises the calls: both user messages can be appended       *)
(* before either reply.)                                                   *)
(***************************************************************************)
\* The session objects in use: those in the store and those only a thread holds.
SessionObjects ==
    {sessions[k] : k \in DOMAIN sessions}
        \cup {threads[t].orphan : t \in {u \in Threads : HasSession(u) /\ ~InStore(u)}}

NoThreadFailed == \A t \in Threads : threads[t].failure = Absent

C13_TurnsDoNotInterleave ==
    NoThreadFailed =>
        /\ \A s \in SessionObjects : \A i \in 1..(Len(s.messages) - 1) :
              s.messages[i].role = "user" => s.messages[i + 1].role = "assistant"
        /\ \A t \in Threads : threads[t].pc = "done" =>
              LET h == Deref(t).messages
              IN \E i \in 1..(Len(h) - 1) :
                    /\ WithoutTimestamp(h[i]) =
                          [role |-> "user", content |-> threads[t].user_message]
                    /\ WithoutTimestamp(h[i + 1]) =
                          [role |-> "assistant", content |-> threads[t].response_data.response]
        /\ \A t \in Threads : \A u \in threads[t].in_flight :
              \A i \in 1..Len(threads[t].view) :
                  threads[t].view[i].content # ThreadMessage[u]

(***************************************************************************)
(* C14.  The stored history of a session is append-only across             *)
(* process_message calls: in every step every session stays in the store   *)
(* and its earlier history is a prefix of its later history, so no entry   *)
(* is removed, reordered or modified; the step that takes the bounded      *)
(* view for the classifier leaves the stored history as it was.            *)
(***************************************************************************)
IsPrefix(a, b) == Len(a) <= Len(b) /\ SubSeq(b, 1, Len(a)) = a

HistoryExtended ==
    /\ \A sid \in DOMAIN sessions :
          /\ sid \in DOMAIN sessions'
          /\ IsPrefix(sessions[sid].messages, sessions'[sid].messages)
    /\ pc = "received" =>
          \A sid \in DOMAIN sessions : sessions'[sid].messages = sessions[sid].messages

C14_HistoryAppendOnly == [][HistoryExtended]_vars

\* The second call on a session of three earlier turns: the classifier was
\* handed the last five of the seven stored messages.
C14_Witness ==
    /\ pc = "intent_extracted"
    /\ turns = 2
    /\ Len(sessions["s1"].messages) >= 7
    /\ Len(calls[1].messages) = 7

(***************************************************************************)
(* C15.  For a session with L stored messages and n >= 1,                  *)
(* get_context_window(n) returns exactly the last min(n, L) stored         *)
(* messages in chronological order, each as {role, content} with role and  *)
(* content unmodified and no timestamp: a view larger than the history is  *)
(* all of it, a view of size 2 is the last 2.                              *)
(***************************************************************************)
Min(a, b) == IF a < b THEN a ELSE b

C15_RecentView ==
    (store_call.op = "get_context_window" /\ store_call.n >= 1) =>
        LET h == sessions[store_call.key].messages
            L == Len(h)
            k == Min(store_call.n, L)
            view == store_call.result
        IN /\ Len(view) = k
           /\ \A i \in 1..k :
                 view[i] = [role |-> h[L - k + i].role, content |-> h[L - k + i].content]

\* A view of size 2 of a history of 3 messages that do not all look alike.
C15_Witness ==
    /\ store_call.op = "get_context_window"
    /\ store_call.n = 2
    /\ Len(sessions[store_call.key].messages) = 3
    /\ sessions[store_call.key].messages[1].role = "user"
    /\ Len(store_call.result) = 2
    /\ store_call.result[1].role = "assistant"
    /\ store_call.result[2].role = "user"

(***************************************************************************)
(* C20.  get_or_create_session on a key in the store returns the stored    *)
(* session and changes nothing; on a key not in the store (never used, or  *)
(* cleared) it returns a session with empty history and empty context      *)
(* that is none of the session objects handed out before, and stores it;   *)
(* clear_session removes the key and nothing else, and on a key not in     *)
(* the store (unknown, or already cleared) it changes nothing.             *)
(***************************************************************************)
OthersKept(key) ==
    \A k \in DOMAIN sessions \ {key} : k \in DOMAIN sessions' /\ sessions'[k] = sessions[k]

SessionOperation ==
    LET c == store_call'
    IN /\ c.op = "get_or_create_session" =>
             IF c.key \in DOMAIN sessions
             THEN /\ sessions' = sessions
                  /\ c.result = sessions[c.key]
                  /\ <<c.key, c.result.object>> \in held
             ELSE /\ c.result.messages = <<>>
                  /\ c.result.context = EmptyContext
                  /\ <<c.key, c.result.object>> \notin held
                  /\ DOMAIN sessions' = DOMAIN sessions \cup {c.key}
                  /\ sessions'[c.key] = c.result
                  /\ OthersKept(c.key)
       /\ c.op = "clear_session" =>
             /\ DOMAIN sessions' = DOMAIN sessions \ {c.key}
             /\ OthersKept(c.key)
             /\ c.key \notin DOMAIN sessions => sessions' = sessions

C20_ClearAndGetOrCreate == [][SessionOperation]_vars

\* After a clear, the key's second session object is handed out, empty, while
\* the other key's session has kept its messages and its context entry.
C20_Witness ==
    /\ store_call.op = "get_or_create_session"
    /\ store_call.key = "s1"
    /\ store_call.result.object = 2
    /\ store_call.result.messages = <<>>
    /\ <<"s1", 1>> \in held
    /\ "s2" \in DOMAIN sessions
    /\ Len(sessions["s2"].messages) = 2
    /\ sessions["s2"].context.last_category = "Saree"

(***************************************************************************)
(* C16.  In a turn whose intent_type is off_topic, whatever its            *)
(* confidence and needs_clarification, the generator is never invoked,     *)
(* the index is never contacted, the action is chat and the response is    *)
(* exactly the fixed boundary message with no products.                    *)
(***************************************************************************)
GeneratorCalled == \E i \in 1..Len(calls) : calls[i].to = "generator"

C16_OffTopicBoundary ==
    intent.intent_type = "off_topic" =>
        /\ ~GeneratorCalled
        /\ ~IndexCalled
        /\ ~SearchCalled
        /\ pc \in {"action_decided", "responded"} => action = "chat"
        /\ pc = "responded" =>
              /\ failure = Absent
              /\ response_data.response = BoundaryMessage
              /\ response_data.products = <<>>
              /\ response_data.action = "chat"

\* An off_topic turn whose confidence is null and which asks for clarification.
C16_Witness ==
    /\ pc = "responded"
    /\ intent.intent_type = "off_topic"
    /\ intent.confidence = ConfNull
    /\ intent.needs_clarification = "true"
    /\ response_data.response = BoundaryMessage

(***************************************************************************)
(* C17.  In a search turn every product handed to the generator comes      *)
(* from a match the search returned in that turn: each product summary is  *)
(* the match at the same position, no example product is handed over, and  *)
(* with no match no product data at all.  (The system prompt sent with     *)
(* every search result carries two example products with name, price and   *)
(* stock.)                                                                 *)
(***************************************************************************)
MatchNames ==
    { search_run.matches[j].metadata.product_name : j \in 1..Len(search_run.matches) }

C17_OnlyRetrievedProducts ==
    \A c \in 1..Len(calls) :
        (calls[c].to = "generator" /\ calls[c].op = "search_response") =>
            LET summaries == calls[c].input.user.summaries
                examples == calls[c].input.system.examples
            IN /\ Len(summaries) <= Len(search_run.matches)
               /\ \A k \in 1..Len(summaries) :
                     LET md == search_run.matches[k].metadata
                     IN md.product_name # Absent => summaries[k].name = md.product_name
               /\ \A e \in 1..Len(examples) : examples[e].name \in MatchNames
               /\ Len(search_run.matches) = 0 => (summaries = <<>> /\ examples = <<>>)

(***************************************************************************)
(* C18.  When the generator call fails, the turn still ends with action =  *)
(* search respectively chat, never error, and a fixed fallback text: the   *)
(* welcome line for chat; for search the "found N items" line with N the   *)
(* number of products when there are products, the "no matches" line when  *)
(* there are none.  The products are those built from the matches, as      *)
(* when the generator succeeds.                                            *)
(***************************************************************************)
GeneratorFailed ==
    \E i \in 1..Len(calls) : calls[i].to = "generator" /\ calls[i].status = "fail"

GeneratorSucceeded ==
    \E i \in 1..Len(calls) : calls[i].to = "generator" /\ calls[i].status = "ok"

C18_GenerationFallback ==
    /\ (pc = "responded" /\ GeneratorFailed) =>
          /\ failure = Absent
          /\ response_data.action = action
          /\ action \in {"search", "chat"}
          /\ action = "chat" =>
                response_data.response = ChatFallback /\ response_data.products = <<>>
          /\ action = "search" =>
                LET n == Len(response_data.products)
                IN /\ n > 0 => response_data.response = FoundFallback(n)
                   /\ n = 0 => response_data.response
                                  = NoMatchFallback(QueryDescription(intent))
    /\ (pc = "responded" /\ (GeneratorFailed \/ GeneratorSucceeded) /\ action = "search") =>
          /\ Len(response_data.products) = Len(search_run.matches)
          /\ \A k \in 1..Len(search_run.matches) :
                response_data.products[k].id = search_run.matches[k].id

\* The generator failed after a search that returned two matches.
C18_Witness ==
    /\ pc = "responded"
    /\ GeneratorFailed
    /\ action = "search"
    /\ Len(response_data.products) = 2
    /\ response_data.response = "I found 2 items matching your search. Here are the results!"

(***************************************************************************)
(* C19.  In a turn routed to clarify the response is the intent's          *)
(* clarification_question verbatim when it is present and non-empty, and   *)
(* the fixed generic clarification prompt otherwise; there are no          *)
(* products, the action is clarify, and neither the index nor the          *)
(* generator is invoked.                                                   *)
(***************************************************************************)
C19_ClarifyResponse ==
    (pc \in {"action_decided", "responded"} /\ action = "clarify") =>
        /\ ~IndexCalled
        /\ ~SearchCalled
        /\ ~GeneratorCalled
        /\ pc = "responded" =>
              /\ failure = Absent
              /\ response_data.action = "clarify"
              /\ response_data.products = <<>>
              /\ response_data.response =
                    IF PresentNonEmpty(intent.clarification_question)
                    THEN intent.clarification_question
                    ELSE GenericClarification

\* A low-confidence product search answered with the classifier's own question.
C19_Witness ==
    /\ pc = "responded"
    /\ action = "clarify"
    /\ intent.intent_type = "product_search"
    /\ intent.confidence = Num(59)
    /\ intent.needs_clarification = "false"
    /\ response_data.response = "Which fabric would you like?"

(***************************************************************************)
(* C21.  An operation on session key A (a step of process_message, a       *)
(* context update, clear_session) leaves every other key B in the store    *)
(* with the history and context it had, and a session created by the       *)
(* operation starts with nothing of another session: it is a new object    *)
(* whose context is empty and whose history holds at most the user         *)
(* message of the call that created it.                                    *)
(***************************************************************************)
\* The key the step operates on: the key of a direct session operation while
\* no call is in flight, the key of the process_message call otherwise.
OperatedKey ==
    IF pc = "idle" /\ pc' = "idle" THEN store_call'.key
    ELSE IF pc = "idle" THEN session_id'
    ELSE session_id

OtherKeysUntouched ==
    /\ OthersKept(OperatedKey)
    /\ \A k \in DOMAIN sessions' \ DOMAIN sessions :
          /\ k = OperatedKey
          /\ sessions'[k].object = allocated[k] + 1
          /\ sessions'[k].context = EmptyContext
          /\ \A i \in 1..Len(sessions'[k].messages) :
                WithoutTimestamp(sessions'[k].messages[i])
                    = [role |-> "user", content |-> user_message']

C21_SessionIsolation == [][OtherKeysUntouched]_vars

\* After a search turn on s1 and a turn on s2, s2 was cleared: s1 still has
\* its two messages and the category its own turn extracted.
C21_Witness ==
    /\ store_call.op = "clear_session"
    /\ store_call.key = "s2"
    /\ allocated["s2"] = 1
    /\ "s2" \notin DOMAIN sessions
    /\ "s1" \in DOMAIN sessions
    /\ Len(sessions["s1"].messages) = 2
    /\ sessions["s1"].context.last_category = "Saree"

(***************************************************************************)
(* C22.  When the classification of a turn succeeds, the session context   *)
(* afterwards holds that turn's attributes under last_attributes and that  *)
(* turn's category under last_category, whatever earlier turns wrote (an   *)
(* entry for which the turn extracted nothing holds nothing); when the     *)
(* classification fails the context is as it was; no other step of the     *)
(* turn writes the context.  (_extract_intent writes an entry only when    *)
(* the extracted value is truthy, so an earlier turn's value stays when    *)
(* this turn extracted none.)                                              *)
(***************************************************************************)
NothingExtracted(v) == v \in {Absent, Null, ""}

ContextHolds(context, i) ==
    /\ \/ context.last_category = i.category
       \/ NothingExtracted(i.category) /\ NothingExtracted(context.last_category)
    /\ \/ context.last_attributes = i.attributes
       \/ ~AttrsTruthy(i.attributes) /\ ~AttrsTruthy(context.last_attributes)

ContextWrittenPerTurn ==
    /\ pc = "received" =>
          IF classifier_status' = "object"
          THEN ContextHolds(sessions'[session_id].context, intent')
          ELSE sessions'[session_id].context = sessions[session_id].context
    /\ pc \in {"intent_extracted", "action_decided"} =>
          sessions'[session_id].context = sessions[session_id].context
    /\ (pc = "idle" /\ pc' = "received" /\ session_id' \in DOMAIN sessions) =>
          sessions'[session_id'].context = sessions[session_id'].context

C22_ContextLastWriteWins == [][ContextWrittenPerTurn]_vars

(***************************************************************************)
(* C23.  Every product built by _format_products has the same fixed set    *)
(* of keys; a field missing from the match's metadata, in_stock and price  *)
(* included, is an explicit empty/unknown marker in the product (the id    *)
(* of the match for product_id), and a field present in the metadata is    *)
(* carried over unchanged, the price as its formatted number.  (A missing  *)
(* in_stock becomes True, which the summary for the generator shows as     *)
(* "In Stock".)                                                            *)
(***************************************************************************)
ProductKeys ==
    {"id", "product_id", "name", "price", "category", "subcategory", "color", "fabric",
     "technique", "pattern", "description", "in_stock", "colors_available", "score"}

UnknownMarkers == {"", "Unknown", "N/A", Null}

\* The metadata field a product key is read from.
MetadataField(key) == IF key = "name" THEN "product_name" ELSE key

CarriedOver(product, metadata, key) ==
    IF metadata[MetadataField(key)] = Absent
    THEN product[key] \in UnknownMarkers
    ELSE product[key] = metadata[MetadataField(key)]

C23_NoFabricatedFields ==
    (pc = "responded" /\ response_data.action = "search") =>
        \A k \in 1..Len(response_data.products) :
            LET product == response_data.products[k]
                match == search_run.matches[k]
            IN /\ DOMAIN product = ProductKeys
               /\ product.id = match.id
               /\ \A key \in {"name", "category", "subcategory", "color", "fabric", "technique",
                              "pattern", "description", "in_stock", "colors_available"} :
                     CarriedOver(product, match.metadata, key)
               /\ IF match.metadata.product_id = Absent
                  THEN product.product_id \in UnknownMarkers \cup {match.id}
                  ELSE product.product_id = match.metadata.product_id
               /\ match.metadata.price.kind = "absent" => product.price \in UnknownMarkers
               /\ match.metadata.price.kind = "num" =>
                     product.price = RupeeSign \o Grouped(match.metadata.price.val)

(***************************************************************************)
(* C24.  In a search turn with n matches the products returned are the n   *)
(* matches in retrieval order (one product per match, ids preserved, none  *)
(* added or dropped), and the generator is called once with the summaries  *)
(* of exactly the first min(5, n) products, in that order.                 *)
(***************************************************************************)
GeneratorCalls == { c \in 1..Len(calls) : calls[c].to = "generator" }

C24_ProductsInRetrievalOrder ==
    (pc = "responded" /\ response_data.action = "search") =>
        LET matches == search_run.matches
            products == response_data.products
            n == Len(matches)
        IN /\ Len(products) = n
           /\ \A k \in 1..n : products[k].id = matches[k].id
           /\ Cardinality(GeneratorCalls) = 1
           /\ \A c \in GeneratorCalls :
                 LET summaries == calls[c].input.user.summaries
                 IN /\ Len(summaries) = Min(SummaryLimit, n)
                    /\ \A k \in 1..Len(summaries) :
                          /\ summaries[k].index = k
                          /\ summaries[k].name = products[k].name
                          /\ summaries[k].price = products[k].price

\* Six matches, the lowest-ranked product first: six products are returned
\* and the generator is shown the first five.
C24_Witness ==
    /\ pc = "responded"
    /\ response_data.action = "search"
    /\ Len(response_data.products) = 6
    /\ response_data.products[1].id = "p6"
    /\ response_data.products[6].id = "p1"
    /\ \E c \in GeneratorCalls :
          /\ Len(calls[c].input.user.summaries) = 5
          /\ calls[c].input.user.summaries[1].name = "Ajrakh Saree 6"

(***************************************************************************)
(* C25.  A request whose text (field `text`, else field `message`) is      *)
(* missing, empty or whitespace-only is answered with a 4xx status and an  *)
(* `error` field before any processing: the store, the construction        *)
(* counts, the bot service and the index handle are as they were and no    *)
(* collaborator is called; when both fields are present and non-empty and  *)
(* the request is processed, the text processed is that of `text`.         *)
(***************************************************************************)
\* The text of a request as the claim reads it.
ClaimedText(data) == IF PresentNonEmpty(data.text) THEN data.text ELSE data.message

TextMissing(data) ==
    data.kind = "object" /\ (~PresentNonEmpty(ClaimedText(data)) \/ IsBlank(ClaimedText(data)))

RejectedBeforeProcessing ==
    /\ TextMissing(request') =>
          /\ http_response'.status \in 400..499
          /\ http_response'.error # Absent
          /\ sessions' = sessions
          /\ allocated' = allocated
          /\ bot_service' = bot_service
          /\ initialized' = initialized
          /\ calls' = <<>>
          /\ response_data' = NoResponse
    /\ (/\ request'.kind = "object"
        /\ PresentNonEmpty(request'.text)
        /\ PresentNonEmpty(request'.message)
        /\ http_response'.status = 200) =>
          /\ user_message' = request'.text
          /\ calls'[1].messages[Len(calls'[1].messages)].content = request'.text
          /\ \E i \in 1..Len(sessions'[session_id'].messages) :
                WithoutTimestamp(sessions'[session_id'].messages[i])
                    = [role |-> "user", content |-> request'.text]

C25_EmptyTextRejected == [][RejectedBeforeProcessing]_vars

\* After a processed request on s1, a request with a whitespace-only `text`
\* and a usable `message` is rejected; the session of s1 is as it was.
C25_Witness ==
    /\ request = MkRequest("object", BlankQuery, "What's the weather?", "s1")
    /\ http_response.status = 400
    /\ http_response.error = EmptyTextError
    /\ bot_service = "BotService"
    /\ "s1" \in DOMAIN sessions
    /\ Len(sessions["s1"].messages) = 2
    /\ calls = <<>>

(***************************************************************************)
(* C26.  A request with a valid non-empty text is always answered with     *)
(* status 200, with the apology when its processing failed, missing        *)
(* collaborator configuration and a bot service that cannot be             *)
(* constructed included; only malformed or empty input is answered with a  *)
(* 4xx status and an `error` field.  (Without OPENAI_API_KEY do_POST       *)
(* raises ValueError before the bot service exists, and its except branch  *)
(* answers 400 with the error text.)                                       *)
(***************************************************************************)
ValidText(data) ==
    /\ data.kind = "object"
    /\ PresentNonEmpty(ClaimedText(data))
    /\ ~IsBlank(ClaimedText(data))
    /\ ClaimedText(data) # NumberText

C26_FailuresAnsweredWith200 ==
    request.kind # "none" =>
        /\ ValidText(request) =>
              /\ http_response.status = 200
              /\ http_response.error = Absent
              /\ failure # Absent => http_response.response = ApologyText
        /\ http_response.status \in 400..499 =>
              /\ ~ValidText(request)
              /\ http_response.error # Absent

(***************************************************************************)
(* C27.  In every turn each collaborator is invoked at most once and never *)
(* again after a failure: the classifier exactly once and first; in a      *)
(* turn routed to search the index is queried at most once and then the    *)
(* generator is called exactly once; in a chat turn whose intent is not    *)
(* off_topic the generator is called exactly once; in a clarify turn and   *)
(* in an off_topic turn no further collaborator is called.  (A search      *)
(* that raises, see C9 and C3, ends the turn before the generator is       *)
(* called.)                                                                *)
(***************************************************************************)
CallsTo(collaborator) == { c \in 1..Len(calls) : calls[c].to = collaborator }

IndexQueries == { c \in CallsTo("index") : calls[c].op = "query" }

C27_OneCallPerCollaborator ==
    /\ Cardinality(CallsTo("classifier")) <= 1
    /\ Cardinality(IndexQueries) <= 1
    /\ Cardinality(CallsTo("generator")) <= 1
    /\ pc \in {"intent_extracted", "action_decided", "responded"} =>
          /\ Cardinality(CallsTo("classifier")) = 1
          /\ calls[1].to = "classifier"
    /\ pc = "responded" =>
          /\ action = "search" =>
                /\ Cardinality(CallsTo("generator")) = 1
                /\ calls[Len(calls)].to = "generator"
          /\ (action = "chat" /\ intent.intent_type # "off_topic") =>
                /\ Cardinality(CallsTo("generator")) = 1
                /\ CallsTo("index") = {}
          /\ (action = "clarify" \/ intent.intent_type = "off_topic") =>
                /\ CallsTo("generator") = {}
                /\ CallsTo("index") = {}

(***************************************************************************)
(* C28.  The message list submitted to the classifier for a turn, and      *)
(* likewise the one submitted to the chat generator, is the system prompt, *)
(* then at most 5 entries of the history as it was before the turn, in     *)
(* chronological order, then the current user text once, as the last       *)
(* entry.  (The user message is appended to the history before the view    *)
(* is taken, so the view ends with it and the list carries it twice.)      *)
(***************************************************************************)
\* The last (at most ContextWindow) entries of a history, without timestamps.
RecentEntries(history) ==
    LET n == Len(history)
        k == Min(ContextWindow, n)
    IN [j \in 1..k |-> WithoutTimestamp(history[n - k + j])]

\* A submitted list is the system prompt, the recent entries of the earlier
\* history and the user text.
SubmittedOnce(messages, earlier) ==
    /\ Len(messages) >= 2
    /\ messages[1].role = "system"
    /\ messages[Len(messages)] = [role |-> "user", content |-> user_message]
    /\ SubSeq(messages, 2, Len(messages) - 1) = RecentEntries(earlier)

C28_UserTextOnce ==
    /\ pc = "intent_extracted" =>
          LET h == sessions[session_id].messages
          IN SubmittedOnce(calls[1].messages, SubSeq(h, 1, Len(h) - 1))
    /\ (pc = "responded" /\ action = "chat" /\ failure = Absent) =>
          LET h == sessions[session_id].messages
          IN \A c \in CallsTo("generator") :
                SubmittedOnce(calls[c].input, SubSeq(h, 1, Len(h) - 2))

(***************************************************************************)
(* C29.  Whenever the classifier fails in a turn, the turn is routed to    *)
(* clarify (the default intent's confidence 0.5 is below the threshold     *)
(* 0.6): the response is the fixed generic clarification prompt, there     *)
(* are no products, the action is clarify, and neither the index nor the   *)
(* generator is invoked in that turn.                                      *)
(***************************************************************************)
C29_ClassifierFailureClarifies ==
    ClassifierFailed =>
        /\ intent.confidence.pct < ConfidenceThreshold
        /\ ~IndexCalled
        /\ ~SearchCalled
        /\ ~GeneratorCalled
        /\ pc \in {"action_decided", "responded"} => action = "clarify"
        /\ pc = "responded" =>
              /\ failure = Absent
              /\ response_data.response = GenericClarification
              /\ response_data.products = <<>>
              /\ response_data.action = "clarify"

\* The classifier call failed in the second turn of a session whose first
\* turn was a search.
C29_Witness ==
    /\ classifier_status = "call_failed"
    /\ pc = "responded"
    /\ turns = 2
    /\ initialized
    /\ Len(sessions[session_id].messages) = 4
    /\ response_data.response = GenericClarification
    /\ response_data.action = "clarify"

(***************************************************************************)
(* C30.  When two process_message calls for the same key, not in the       *)
(* store before, run concurrently, one session is constructed for the key  *)
(* and both calls work on the stored one: once both have returned, the     *)
(* stored session holds the user message of each.  (Both calls can find    *)
(* the key missing at line 112; the second construction replaces the       *)
(* first session, which keeps the first call's messages out of the         *)
(* store.)                                                                 *)
(***************************************************************************)
SameKeyCalls ==
    { sid \in SessionIds : \A t \in Threads : threads[t].session_id = sid }

C30_OneSessionPerKey ==
    \A sid \in SameKeyCalls :
        /\ allocated[sid] <= 1
        /\ \A t \in Threads : HasSession(t) => InStore(t)
        /\ (\A t \in Threads : threads[t].pc = "done") =>
              \A t \in Threads :
                  \E i \in 1..Len(sessions[sid].messages) :
                      WithoutTimestamp(sessions[sid].messages[i])
                          = [role |-> "user", content |-> threads[t].user_message]

(***************************************************************************)
(* C31.  A bounded view never exceeds its bound: for every n >= 0 and      *)
(* every history, get_context_window(n) returns at most n entries; in      *)
(* particular get_context_window(0) on a non-empty history returns an      *)
(* empty view.  (For n = 0 the test len(self.messages) > 0 selects the     *)
(* slice self.messages[-0:], which is the whole history.)                  *)
(***************************************************************************)
C31_ViewWithinBound ==
    (store_call.op = "get_context_window" /\ store_call.n >= 0) =>
        Len(store_call.result) <= store_call.n


====
